---- MODULE Spec2Model ----
(***************************************************************************)
(* Marker / node tracking, sparse flow interpolation and voxel             *)
(* reassignment of nellie, as state machines.                              *)
(*                                                                         *)
(* Coordinates are one-dimensional integers with unit physical scaling, so *)
(* Euclidean distances are absolute differences and stay exact.  Frame f   *)
(* is taken at time f seconds.  Costs of the node tracker are distances    *)
(* per second; they are stored multiplied by CostScale so that the         *)
(* division by the time gap stays exact.                                   *)
(***************************************************************************)
EXTENDS Integers, Sequences, FiniteSets, TLC

\* ---------------------------------------------------------------- bounds
NumFrames == 2
MaxNodes == 2

MaxRecords == 2
MaxVoxels == 2
MaxPathLen == 5
MaxTierNodes == 4
NumHuFrames == 3
NumLabelFrames == 3
MaxObjects == 2

\* Centroid / marker coordinates a frame of a multi-frame run may hold.
Positions == {0, 2, 5}
\* Centroid / marker coordinates a frame of a single frame pair may hold.
PairPositions == {0, 2, 3, 5}
\* Maximum link distances (um per second) a run may be configured with.
Thresholds == {2, 4}

\* xp.inf
Inf == 1000000

VARIABLES
    sys,        \* which tracker runs: "node_tracking", "node_to_node", "hu"
    frames,     \* frames[f + 1]: the centroids of the nodes / markers of frame f
    thresh,     \* distance_thresh_um_per_sec / max_distance_um
    frame_num,  \* the next frame populate_tracks / _run_hu_tracking processes
    err,        \* the exception that ended the run, or "none"
    ntc,        \* node_tracking.NodeTrackConstructor
    n2n,        \* node_to_node.NodeTrackConstructor
    hu,         \* hu.HuMomentTracking
    gate,       \* the frame pair just matched, matched again under a larger threshold
    matched,    \* the Tier-1 matches of the last frame pair and their cost matrix
    flow,       \* flow_vector_array: the rows (frame, origin, vector, cost)
    fi,         \* flow_interpolation.FlowInterpolator
    vox,        \* voxel_reassignment.VoxelReassigner
    im_info,    \* io.im_info.ImInfo
    label       \* segmentation.labelling.Label

vars == <<sys, frames, thresh, frame_num, err, ntc, n2n, hu, gate, matched, flow, fi, vox,
          im_info, label>>

\* ---------------------------------------------------------------- helpers
Abs(x) == IF x < 0 THEN -x ELSE x

Min(S) == CHOOSE x \in S : \A y \in S : x <= y

Max(S) == CHOOSE x \in S : \A y \in S : x >= y

RECURSIVE Fact(_)
Fact(n) == IF n <= 1 THEN 1 ELSE n * Fact(n - 1)

\* Costs are kept as multiples of 1 / CostScale um per second.
CostScale == Fact(NumFrames - 1)

RECURSIVE SumSeq(_)
SumSeq(s) == IF s = <<>> THEN 0 ELSE Head(s) + SumSeq(Tail(s))

\* list.remove(x) on a list that holds x
Remove(s, x) ==
    LET i == Min({k \in 1..Len(s) : s[k] = x})
    IN  SubSeq(s, 1, i - 1) \o SubSeq(s, i + 1, Len(s))

InSeq(s, x) == \E k \in 1..Len(s) : s[k] = x

\* list(range(n))
Range(n) == [k \in 1..n |-> k - 1]

\* The ascending sequence of a finite set of integers.
RECURSIVE SortedSeq(_)
SortedSeq(S) == IF S = {} THEN <<>> ELSE <<Min(S)>> \o SortedSeq(S \ {Min(S)})

Reverse(s) == [k \in 1..Len(s) |-> s[Len(s) + 1 - k]]

\* The node lists a frame may hold: up to MaxNodes distinct centroids out
\* of P, in ascending or descending order.
FrameChoices(P) ==
    LET sets == {S \in SUBSET P : Cardinality(S) <= MaxNodes}
    IN  {SortedSeq(S) : S \in sets} \cup {Reverse(SortedSeq(S)) : S \in sets}

\* A sequence of NumFrames frames that holds the frame pair (a, b) and no
\* node after it.
PairFrames(a, b) ==
    [f \in 1..NumFrames |-> IF f = 1 THEN a ELSE IF f = 2 THEN b ELSE <<>>]

SeqSet(q) == {q[k] : k \in 1..Len(q)}

\* A matrix held as an array of its entries: the entries are computed once,
\* when the array is built.
Array(m) == IF m = m THEN m ELSE m

\* ------------------------------------------------- node_tracking.NodeTrack
\* An empty dict; a dict is a function from its keys.
EmptyDict == <<>>

DictPut(d, k, v) == [x \in (DOMAIN d) \cup {k} |-> IF x = k THEN v ELSE d[x]]

\* NodeTrack.__init__: a track started by node node_num of frame frame.
NodeTrack(node_num, frame, centroid) ==
    [ frame_nums |-> <<frame>>,
      time_points |-> <<frame>>,
      centroids_um |-> <<centroid>>,
      node_num |-> <<node_num>>,
      assignment_cost |-> <<0>>,
      confidence |-> <<0>>,
      possible_merges_to |-> EmptyDict,
      possible_emerges_from |-> EmptyDict ]

\* NodeTrack.add_node
AddNode(track, node_num, frame, centroid, cost, confident) ==
    [ track EXCEPT
        !.frame_nums = Append(@, frame),
        !.time_points = Append(@, frame),
        !.centroids_um = Append(@, centroid),
        !.node_num = Append(@, node_num),
        !.assignment_cost = Append(@, cost),
        !.confidence = Append(@, confident) ]

\* NodeTrack.possibly_merged_to
PossiblyMergedTo(track, node, frame, cost) ==
    IF frame \notin DOMAIN track.possible_merges_to
    THEN [track EXCEPT !.possible_emerges_from = DictPut(@, frame, <<<<node, cost>>>>)]
    ELSE [track EXCEPT !.possible_merges_to =
              DictPut(@, frame, Append(track.possible_merges_to[frame], <<node, cost>>))]

\* NodeTrack.possibly_emerged_from
PossiblyEmergedFrom(track, other, frame, cost) ==
    IF frame \notin DOMAIN track.possible_emerges_from
    THEN [track EXCEPT !.possible_emerges_from = DictPut(@, frame, <<<<other, cost>>>>)]
    ELSE [track EXCEPT !.possible_emerges_from =
              DictPut(@, frame, Append(track.possible_emerges_from[frame], <<other, cost>>))]

\* ------------------------------------- node_tracking._get_assignment_matrix
\* The gate with its comparison turned round.
DistanceGateInverted(v, th) == IF v < th THEN Inf ELSE v

\* distance_matrix[distance_matrix > thresh] = inf
DistanceGate(v, th) == IF v > th THEN Inf ELSE v

\* A cost that ignores the distance.
TrackNodeCostZero(track, centroid, frame) == 0

\* The distance per second between the last centroid of a track and a node,
\* in units of 1 / CostScale.
TrackNodeCost(track, centroid, frame) ==
    LET gap == frame - track.time_points[Len(track.time_points)]
        d == Abs(centroid - track.centroids_um[Len(track.centroids_um)])
    IN  (CostScale \div gap) * d

\* cost_matrix: rows 0..T-1 are the tracks, columns 0..N-1 the nodes of the
\* frame; the padding rows and columns hold the threshold.
AssignmentMatrix(tracks, nodes, frame, th) ==
    LET T == Len(tracks)
        N == Len(nodes)
    IN  Array([i \in 0..(T + N - 1) |->
            [j \in 0..(T + N - 1) |->
                IF i < T /\ j < N
                THEN DistanceGate(TrackNodeCost(tracks[i + 1], nodes[j + 1], frame),
                                  th * CostScale)
                ELSE th * CostScale]])

\* ------------------------------------------ scipy linear_sum_assignment
\* The partial matchings of tracks to nodes over finite entries: f[i] is the
\* node of track i, or -1.
Matchings(cm, T, N) ==
    {f \in [0..(T - 1) -> -1..(N - 1)] :
        /\ \A i \in 0..(T - 1) : f[i] # -1 => cm[i][f[i]] # Inf
        /\ \A i, j \in 0..(T - 1) : (i # j /\ f[i] # -1) => f[i] # f[j]}

RECURSIVE MatchedCost(_, _, _)
MatchedCost(cm, f, n) ==
    IF n = 0 THEN 0
    ELSE MatchedCost(cm, f, n - 1)
         + (IF f[n - 1] = -1 THEN 0 ELSE cm[n - 1][f[n - 1]])

\* The total cost of the square assignment that extends matching f: every
\* row or column left over is paired at the padding cost pad.
TotalCost(cm, T, N, pad, f) ==
    LET k == Cardinality({i \in 0..(T - 1) : f[i] # -1})
    IN  MatchedCost(cm, f, T) + pad * (T + N - k)

OptimalMatchings(cm, T, N, pad) ==
    LET M == Matchings(cm, T, N)
        best == Min({TotalCost(cm, T, N, pad, f) : f \in M})
    IN  {f \in M : TotalCost(cm, T, N, pad, f) = best}

\* All orders of a finite set.
Orderings(S) ==
    {q \in [1..Cardinality(S) -> S] :
        \A a, b \in 1..Cardinality(S) : a # b => q[a] # q[b]}

IndexIn(q, x) == CHOOSE k \in 1..Len(q) : q[k] = x

\* col_ind of one optimal assignment (row_ind is 0..T+N-1).  Track i takes
\* node f[i] or a padding column; ownN is the unassigned track that takes the
\* first padding column N (-1: a padding row takes it); the padding rows
\* T, T+1, ... take the unassigned nodes in the order vseq, after one padding
\* column when padFirst.  The pairs among padding rows and columns the
\* trackers never read are completed in ascending order.
AssignmentOf(T, N, f, ownN, vseq, padFirst) ==
    LET U == SortedSeq({i \in 0..(T - 1) : f[i] = -1 /\ i # ownN})
        trackCol == [i \in 0..(T - 1) |->
                        IF f[i] # -1 THEN f[i]
                        ELSE IF i = ownN THEN N
                        ELSE N + IndexIn(U, i)]
        usedPad == {trackCol[i] : i \in {j \in 0..(T - 1) : f[j] = -1}}
        freePad == SortedSeq((N..(N + T - 1)) \ usedPad)
        padCols == IF padFirst
                   THEN <<Head(freePad)>> \o vseq \o Tail(freePad)
                   ELSE vseq \o freePad
    IN  [r \in 0..(T + N - 1) |-> IF r < T THEN trackCol[r] ELSE padCols[r - T + 1]]

\* linear_sum_assignment(cost_matrix)[1]: every optimal assignment, up to the
\* pairs among padding rows and columns.
LinearSumAssignment(cm, T, N, pad) ==
    UNION {
        LET k == Cardinality({i \in 0..(T - 1) : f[i] # -1})
            U == {i \in 0..(T - 1) : f[i] = -1}
            V == (0..(N - 1)) \ {f[i] : i \in 0..(T - 1)}
            owners == IF T = 0 THEN {-1}
                      ELSE U \cup (IF k >= 1 THEN {-1} ELSE {})
            firsts == IF k >= 1 /\ V # {} THEN {TRUE, FALSE}
                      ELSE IF V = {} THEN {TRUE} ELSE {FALSE}
        IN  {AssignmentOf(T, N, f, ownN, vseq, padFirst) :
                ownN \in owners, vseq \in Orderings(V), padFirst \in firsts}
        : f \in OptimalMatchings(cm, T, N, pad)}

\* np.where(col_ind == n)[0][0]
RowOf(node_nums, n) == CHOOSE r \in DOMAIN node_nums : node_nums[r] = n

\* ------------------------------------ node_tracking confidence tiers 1 - 3
\* The frame pair a tier works on: x.cm the cost matrix, x.T and x.N the
\* numbers of tracks and nodes, x.th the threshold, x.node_nums the optimal
\* assignment.  A tier's state s: the lists tracks_to_assign (s.tta) and
\* nodes_to_assign (s.nta), the accepted matches in order (s.acc) and the
\* exception raised (s.err).

\* Rows of column n with cost_matrix[:, n] < thresh
ColPossible(x, n) == {r \in 0..(x.T + x.N - 1) : x.cm[r][n] < x.th}

\* Columns of row t with cost_matrix[t, :] < thresh
RowPossible(x, t) == {c \in 0..(x.T + x.N - 1) : x.cm[t][c] < x.th}

\* The acceptance that leaves the track in tracks_to_assign.
AcceptKeepTrack(s, t, n, c, confident) ==
    LET a == Append(s.acc, [track |-> t, node |-> n, cost |-> c, confident |-> confident])
    IN  IF ~InSeq(s.nta, n)
        THEN [s EXCEPT !.acc = a, !.err = "ValueError"]
        ELSE [s EXCEPT !.acc = a, !.nta = Remove(s.nta, n)]

\* add_node, then tracks_to_assign.remove and nodes_to_assign.remove
Accept(s, t, n, c, confident) ==
    LET a == Append(s.acc, [track |-> t, node |-> n, cost |-> c, confident |-> confident])
    IN  IF ~InSeq(s.tta, t)
        THEN [s EXCEPT !.acc = a, !.err = "ValueError"]
        ELSE IF ~InSeq(s.nta, n)
        THEN [s EXCEPT !.acc = a, !.tta = Remove(s.tta, t), !.err = "ValueError"]
        ELSE [s EXCEPT !.acc = a, !.tta = Remove(s.tta, t), !.nta = Remove(s.nta, n)]

\* The first loop's test without the comparison against the track's row.
Conf1NodeTestColumnOnly(x, t, n) ==
    LET c == x.cm[t][n]
    IN  IF ColPossible(x, n) = {} THEN "IndexError"
        ELSE IF c # Min({x.cm[r][n] : r \in ColPossible(x, n)}) THEN "skip"
        ELSE "accept"

\* The test of the first loop of _assign_confidence_1_matches on the node n
\* matched to track t: "accept", "skip", or the exception raised.
Conf1NodeTest(x, t, n) ==
    LET c == x.cm[t][n]
    IN  IF ColPossible(x, n) = {} THEN "IndexError"
        ELSE IF c # Min({x.cm[r][n] : r \in ColPossible(x, n)}) THEN "skip"
        ELSE IF RowPossible(x, t) = {} THEN "ValueError"
        ELSE IF c - Min({x.cm[t][k] : k \in RowPossible(x, t)}) > 0 THEN "skip"
        ELSE "accept"

\* The test of the second loop on the track t matched to node n.
Conf1TrackTest(x, t, n) ==
    LET c == x.cm[t][n]
    IN  IF RowPossible(x, t) = {} THEN "IndexError"
        ELSE IF c # Min({x.cm[t][k] : k \in RowPossible(x, t)}) THEN "skip"
        ELSE IF ColPossible(x, n) = {} THEN "ValueError"
        ELSE IF c - Min({x.cm[r][n] : r \in ColPossible(x, n)}) > 0 THEN "skip"
        ELSE "accept"

\* len(possible_assignments) == 2 in _assign_confidence_2_matches
Conf2Test(x, t, n) ==
    IF Cardinality(ColPossible(x, n)) + Cardinality(RowPossible(x, t)) = 2
    THEN "accept" ELSE "skip"

\* for check_node_num in self.nodes_to_assign: the loop reads position i of
\* the list as it is now, entries removed meanwhile included.
RECURSIVE NodeLoop(_, _, _, _)
NodeLoop(x, s, i, tier) ==
    IF s.err # "none" \/ i > Len(s.nta) THEN s
    ELSE LET n == s.nta[i]
             t == RowOf(x.node_nums, n)
             verdict == IF t >= x.T THEN "skip"
                        ELSE IF tier = 1 THEN Conf1NodeTest(x, t, n)
                        ELSE Conf2Test(x, t, n)
         IN  IF verdict = "skip" THEN NodeLoop(x, s, i + 1, tier)
             ELSE IF verdict = "accept"
             THEN NodeLoop(x, Accept(s, t, n, x.cm[t][n], tier), i + 1, tier)
             ELSE [s EXCEPT !.err = verdict]

\* for check_track_num in self.tracks_to_assign
RECURSIVE TrackLoop(_, _, _, _)
TrackLoop(x, s, i, tier) ==
    IF s.err # "none" \/ i > Len(s.tta) THEN s
    ELSE LET t == s.tta[i]
             n == x.node_nums[t]
             verdict == IF n >= x.N THEN "skip"
                        ELSE IF tier = 1 THEN Conf1TrackTest(x, t, n)
                        ELSE Conf2Test(x, t, n)
         IN  IF verdict = "skip" THEN TrackLoop(x, s, i + 1, tier)
             ELSE IF verdict = "accept"
             THEN TrackLoop(x, Accept(s, t, n, x.cm[t][n], tier), i + 1, tier)
             ELSE [s EXCEPT !.err = verdict]

\* _assign_confidence_1_matches
AssignConfidence1(x, s) == TrackLoop(x, NodeLoop(x, s, 1, 1), 1, 1)

\* _assign_confidence_2_matches
AssignConfidence2(x, s) ==
    IF s.err # "none" THEN s ELSE TrackLoop(x, NodeLoop(x, s, 1, 2), 1, 2)

\* np.argmin over positions 1..n of the values v[1..n]: the first minimum
ArgMin(v) == Min({k \in 1..Len(v) : \A j \in 1..Len(v) : v[k] <= v[j]})

\* _assign_confidence_3_matches: it computes the closest pair of the rows and
\* columns left and returns before using it; only its exceptions remain.
AssignConfidence3(x, s) ==
    IF s.err # "none" THEN s
    ELSE LET a == Len(s.tta)
             b == Len(s.nta)
             valid == [i \in 1..a |-> [j \in 1..b |-> x.cm[s.tta[i]][s.nta[j]]]]
             min_each_col == [j \in 1..b |-> Min({valid[i][j] : i \in 1..a})]
             min_each_row == [i \in 1..a |-> Min({valid[i][j] : j \in 1..b})]
             min_col == ArgMin(min_each_col) - 1
             min_row == ArgMin(min_each_row) - 1
             min_all == IF min_each_col[min_col + 1] <= min_each_row[min_row + 1]
                        THEN 0 ELSE 1
         IN  IF a = 0 \/ b = 0 THEN [s EXCEPT !.err = "ValueError"]
             ELSE IF min_all = 0 /\ min_col >= a THEN [s EXCEPT !.err = "IndexError"]
             ELSE IF min_all = 1 /\ min_row >= b THEN [s EXCEPT !.err = "IndexError"]
             ELSE s

\* ---------------------------- node_tracking bookkeeping after the tiers
\* The accepted matches a, in order, appended to their tracks by add_node.
RECURSIVE ApplyAccepted(_, _, _, _)
ApplyAccepted(tracks, acc, nodes, frame) ==
    IF acc = <<>> THEN tracks
    ELSE LET a == Head(acc)
         IN  ApplyAccepted(
                 [tracks EXCEPT ![a.track + 1] =
                     AddNode(@, a.node, frame, nodes[a.node + 1], a.cost, a.confident)],
                 Tail(acc), nodes, frame)

\* possibly_merged_to(node, frame, cost) for the nodes cols of track t, in order
RECURSIVE MergeInto(_, _, _, _, _)
MergeInto(track, cols, x, t, frame) ==
    IF cols = <<>> THEN track
    ELSE MergeInto(PossiblyMergedTo(track, Head(cols), frame, x.cm[t][Head(cols)]),
                   Tail(cols), x, t, frame)

\* _check_unassigned_tracks
CheckUnassignedTracks(x, tracks, frame) ==
    [k \in 1..Len(tracks) |->
        IF x.node_nums[k - 1] > x.N
        THEN MergeInto(tracks[k], SortedSeq(RowPossible(x, k - 1)), x, k - 1, frame)
        ELSE tracks[k]]

\* possibly_emerged_from(track, frame, cost) for the tracks rows, in order
RECURSIVE EmergeFrom(_, _, _, _, _)
EmergeFrom(track, rows, x, n, frame) ==
    IF rows = <<>> THEN track
    ELSE EmergeFrom(PossiblyEmergedFrom(track, Head(rows), frame, x.cm[Head(rows)][n]),
                    Tail(rows), x, n, frame)

\* The nodes that _check_new_tracks starts a track for, in its order:
\* node_nums[track_nums > num_tracks], kept when < num_nodes.
NewTrackNodes(x) ==
    LET rows == SortedSeq({r \in 0..(x.T + x.N - 1) : r > x.T /\ x.node_nums[r] < x.N})
    IN  [k \in 1..Len(rows) |-> x.node_nums[rows[k]]]

\* _check_new_tracks
CheckNewTracks(x, tracks, nodes, frame) ==
    LET new == NewTrackNodes(x)
    IN  tracks \o
        [k \in 1..Len(new) |->
            EmergeFrom(NodeTrack(new[k], frame, nodes[new[k] + 1]),
                       SortedSeq(ColPossible(x, new[k])), x, new[k], frame)]

\* NodeTrackConstructor.__init__; tier names the step of populate_tracks'
\* loop body that ran last, where the body is taken step by step.
NodeTrackConstructor ==
    [ tracks |-> <<>>,
      num_nodes |-> 0,
      num_tracks |-> 0,
      tracks_to_assign |-> <<>>,
      nodes_to_assign |-> <<>>,
      cost_matrix |-> <<>>,
      node_nums |-> <<>>,
      average_assignment_cost |-> EmptyDict,
      tier |-> "none" ]

\* _initialize_tracks
InitializeTracks(c, nodes) ==
    [c EXCEPT !.tracks = [k \in 1..Len(nodes) |-> NodeTrack(k - 1, 0, nodes[k])]]

\* The lines of _get_assignment_matrix before it reads frame_nodes[0].
AssignmentMatrixStart(c, nodes) ==
    [c EXCEPT !.num_nodes = Len(nodes),
              !.num_tracks = Len(c.tracks),
              !.tracks_to_assign = Range(Len(c.tracks)),
              !.nodes_to_assign = Range(Len(nodes))]

\* The frame pair as the tiers see it.
TierContext(c, nodes, frame, th, node_nums) ==
    [ cm |-> AssignmentMatrix(c.tracks, nodes, frame, th),
      T |-> Len(c.tracks),
      N |-> Len(nodes),
      th |-> th * CostScale,
      node_nums |-> node_nums ]

\* The three tiers in order, from the full lists.
RunTiers(x) ==
    AssignConfidence3(x, AssignConfidence2(x, AssignConfidence1(x,
        [tta |-> Range(x.T), nta |-> Range(x.N), acc |-> <<>>, err |-> "none"])))

\* The body of the loop of populate_tracks for a frame >= 1 that holds nodes,
\* given the optimal assignment: the constructor afterwards, the exception
\* raised, and the matches accepted.
PopulateFrame(c, nodes, frame, th, node_nums) ==
    LET x == TierContext(c, nodes, frame, th, node_nums)
        s == RunTiers(x)
        appended == ApplyAccepted(c.tracks, s.acc, nodes, frame)
        tracks == IF s.err # "none" THEN appended
                  ELSE CheckNewTracks(x, CheckUnassignedTracks(x, appended, frame),
                                      nodes, frame)
    IN  [ c |-> [c EXCEPT
                    !.tracks = tracks,
                    !.num_nodes = x.N,
                    !.num_tracks = x.T,
                    !.tracks_to_assign = s.tta,
                    !.nodes_to_assign = s.nta,
                    !.cost_matrix = x.cm,
                    !.node_nums = node_nums,
                    !.average_assignment_cost =
                        DictPut(@, frame,
                            <<SumSeq([r \in 1..(x.T + x.N) |-> x.cm[r - 1][node_nums[r - 1]]]),
                              x.T + x.N>>)],
          err |-> s.err,
          acc |-> s.acc ]

\* The optimal assignments populate_tracks may get for the frame.
FrameAssignments(c, nodes, frame, th) ==
    LinearSumAssignment(AssignmentMatrix(c.tracks, nodes, frame, th),
                        Len(c.tracks), Len(nodes), th * CostScale)

\* ------------------------------------------- node_to_node tracker
\* node_to_node.NodeTrackConstructor.__init__
N2NConstructor ==
    [ tracks |-> EmptyDict,
      current_frame_num |-> -1,
      num_tracks_t1 |-> -1,
      num_tracks_t2 |-> -1,
      t1_remaining |-> <<>>,
      t2_remaining |-> <<>>,
      cost_matrix |-> <<>>,
      t1_t2_assignment |-> <<>> ]

\* node_to_node._initialize_tracks: one NodeTrack (parents, children) a node
N2NInitialize(c, fr) ==
    [c EXCEPT !.tracks =
        [f \in 0..(Len(fr) - 1) |->
            [k \in 1..Len(fr[f + 1]) |-> [parents |-> <<>>, children |-> <<>>]]]]

\* node_to_node._get_assignment_matrix with _append_unassignment_costs, for
\* two frames that hold nodes; the frames are one second apart.
N2NAssignmentMatrix(t1, t2, th) ==
    LET R == Len(t1)
        C == Len(t2)
    IN  Array([i \in 0..(R + C - 1) |->
            [j \in 0..(R + C - 1) |->
                IF i < R /\ j < C
                THEN DistanceGate(Abs(t2[j + 1] - t1[i + 1]), th)
                ELSE th]])

\* The test of _confidence_1_assignment on the optimal pair (t1, t2).
N2NConfident(cm, n, R, C, t1, t2) ==
    /\ ~(t1 > R - 1 \/ t2 > C - 1)
    /\ Min({cm[t1][j] : j \in 0..(n - 1)}) = Min({cm[i][t2] : i \in 0..(n - 1)})
    /\ cm[t1][t2] = Min({cm[t1][j] : j \in 0..(n - 1)})

\* _confidence_1_assignment: the tracks after the loop over the matches.
N2NConfidence1(tracks, cm, R, C, p, frame) ==
    LET links == {m \in 0..(R + C - 1) : N2NConfident(cm, R + C, R, C, m, p[m])}
    IN  [f \in DOMAIN tracks |->
            [k \in 1..Len(tracks[f]) |->
                IF f = frame - 1 /\ (k - 1) \in links
                THEN [tracks[f][k] EXCEPT !.children =
                        Append(@, [frame |-> frame, track |-> k - 1,
                                   cost |-> cm[k - 1][p[k - 1]]])]
                ELSE IF f = frame /\ (\E m \in links : p[m] = k - 1)
                THEN [tracks[f][k] EXCEPT !.parents =
                        Append(@, [frame |-> frame - 1, track |-> k - 1,
                                   cost |-> cm[RowOf(p, k - 1)][k - 1]])]
                ELSE tracks[f][k]]]

\* ------------------------------------------------- hu.HuMomentTracking
\* The scenes modelled hold identical objects: every marker has the same
\* descriptor, so each descriptor channel has zero deviation over the gated
\* pairs, its z-scores are 0/0, and nansum leaves the distance channel.

\* np.argwhere(marker_frame): the markers of a frame in ascending order
Markers(fr, t) == SortedSeq(SeqSet(fr[t + 1]))

\* _get_distance_mask: rows are the markers of frame t, columns those of t-1
HuDistance(post, pre) ==
    [i \in 0..(Len(post) - 1) |-> [j \in 0..(Len(pre) - 1) |-> Abs(post[i + 1] - pre[j + 1])]]

\* distance_matrix < self.max_distance_um
HuDistanceMask(d, max) == {<<i, j>> \in (DOMAIN d) \X (UNION {DOMAIN d[i] : i \in DOMAIN d}) : d[i][j] < max}

RECURSIVE SumOver(_, _)
SumOver(S, g) ==
    IF S = {} THEN 0
    ELSE LET e == CHOOSE e \in S : TRUE IN g[e] + SumOver(S \ {e}, g)

\* _zscore_normalize of the distance channel and nansum over the channels.
\* With n gated pairs of distance sum S, the z-score of a gated entry d is
\* (n*d - S) * sqrt(n) / sqrt(Q), Q the sum of (n*d - S)^2 over the gated
\* pairs; the matrix holds n*d - S, and n and Q with it.  Q = 0 makes every
\* gated z-score 0/0, which nansum counts as 0.  Ungated entries are inf.
HuCostMatrix(post, pre, max) ==
    LET d == HuDistance(post, pre)
        mask == HuDistanceMask(d, max)
        n == Cardinality(mask)
        S == SumOver(mask, [e \in mask |-> d[e[1]][e[2]]])
        Q == SumOver(mask, [e \in mask |-> (n * d[e[1]][e[2]] - S) * (n * d[e[1]][e[2]] - S)])
    IN  [ cm |-> Array([i \in 0..(Len(post) - 1) |-> [j \in 0..(Len(pre) - 1) |->
                    IF <<i, j>> \notin mask THEN Inf
                    ELSE IF Q = 0 THEN 0
                    ELSE n * d[i][j] - S]]),
          n |-> n,
          Q |-> Q,
          mask |-> mask ]

\* cost_cutoff = 1
CostCutoff == 1

\* The comparison on the z-scores alone, the sentinel not looked at.
AboveCutoffFinite(z, v) ==
    z.Q > 0 /\ v > 0 /\ v * v * z.n > CostCutoff * CostCutoff * z.Q

\* val > cost_cutoff for an entry v of a cost matrix z
AboveCutoff(z, v) ==
    \/ v = Inf
    \/ z.Q > 0 /\ v > 0 /\ v * v * z.n > CostCutoff * CostCutoff * z.Q

\* xp.argmin(cost_matrix, axis=1)[i]
RowArgMin(cm, i, C) == Min({j \in 0..(C - 1) : \A k \in 0..(C - 1) : cm[i][j] <= cm[i][k]})

\* xp.argmin(cost_matrix, axis=0)[j]
ColArgMin(cm, j, R) == Min({i \in 0..(R - 1) : \A k \in 0..(R - 1) : cm[i][j] <= cm[k][j]})

RECURSIVE FlattenSeq(_)
FlattenSeq(q) == IF q = <<>> THEN <<>> ELSE Head(q) \o FlattenSeq(Tail(q))

\* _find_best_matches: each row's minimum, then each column's, as the pair
\* of lists (row_matches, col_matches)
FindBestMatches(z, R, C) ==
    LET rows == FlattenSeq([k \in 1..R |->
                    IF AboveCutoff(z, z.cm[k - 1][RowArgMin(z.cm, k - 1, C)]) THEN <<>>
                    ELSE << <<k - 1, RowArgMin(z.cm, k - 1, C)>> >>])
        cols == FlattenSeq([k \in 1..C |->
                    IF AboveCutoff(z, z.cm[ColArgMin(z.cm, k - 1, R)][k - 1]) THEN <<>>
                    ELSE << <<ColArgMin(z.cm, k - 1, R), k - 1>> >>])
        all == rows \o cols
    IN  [ row_matches |-> [k \in 1..Len(all) |-> all[k][1]],
          col_matches |-> [k \in 1..Len(all) |-> all[k][2]] ]

\* _find_confident_matches: the rows whose minimum column has them as its
\* minimum row; an index of -1 stands for a minimum of inf.
FindConfidentMatches(cm, R, C) ==
    LET row_min == [i \in 0..(R - 1) |->
                        IF cm[i][RowArgMin(cm, i, C)] = Inf THEN -1 ELSE RowArgMin(cm, i, C)]
        col_min == [j \in 0..(C - 1) |->
                        IF cm[ColArgMin(cm, j, R)][j] = Inf THEN -1 ELSE ColArgMin(cm, j, R)]
        \* col_min_indices[-1] is the last entry
        at(j) == IF j = -1 THEN col_min[C - 1] ELSE col_min[j]
        kept == FlattenSeq([k \in 1..R |->
                    IF at(row_min[k - 1]) = k - 1 /\ row_min[k - 1] # -1
                    THEN << <<k - 1, row_min[k - 1]>> >> ELSE <<>>])
    IN  [ row_indices |-> [k \in 1..Len(kept) |-> kept[k][1]],
          col_indices |-> [k \in 1..Len(kept) |-> kept[k][2]] ]

\* The values one descriptor of a marker may have: <<>> is an undefined
\* (NaN) value, <<v>> the value v.
DescriptorValues == {<<>>, <<0>>, <<1>>}

\* _get_difference_matrix on one descriptor channel: |m1[i] - m2[j]|, NaN
\* when either value is
DifferenceMatrix(m1, m2) ==
    [i \in 0..(Len(m1) - 1) |-> [j \in 0..(Len(m2) - 1) |->
        IF m1[i + 1] = <<>> \/ m2[j + 1] = <<>> THEN <<>>
        ELSE <<Abs(m1[i + 1][1] - m2[j + 1][1])>>]]

\* _zscore_normalize on one channel m under the mask.  xp.sum takes every
\* entry of slice_m * mask, so one NaN entry, gated or not, makes mean and
\* deviation NaN and with them every entry; ungated entries are then set to
\* inf.  A number entry a stands for the z-score a * sqrt(n) / sqrt(Q).
ZscoreNormalize(m, mask) ==
    LET n == Cardinality(mask)
        nan == \E i \in DOMAIN m : \E j \in DOMAIN m[i] : m[i][j] = <<>>
        S == IF nan THEN 0 ELSE SumOver(mask, [e \in mask |-> m[e[1]][e[2]][1]])
        Q == IF nan THEN 0
             ELSE SumOver(mask, [e \in mask |->
                      (n * m[e[1]][e[2]][1] - S) * (n * m[e[1]][e[2]][1] - S)])
    IN  [ z |-> [i \in DOMAIN m |-> [j \in DOMAIN m[i] |->
                    IF <<i, j>> \notin mask THEN [kind |-> "inf", a |-> 0]
                    ELSE IF nan \/ Q = 0 THEN [kind |-> "nan", a |-> 0]
                    ELSE [kind |-> "num", a |-> n * m[i][j][1] - S]]],
          n |-> n,
          Q |-> Q ]

\* No function of the tracker called on its own yet.
NoHuCall == [op |-> "none", args |-> <<>>, mask |-> {}, result |-> <<>>]

\* The first vector listed in place of the mean.
MeanOfListFirst(q) == <<Head(q), 1>>

\* np.mean of the vectors of one origin, taken in the order q of the list
MeanOfList(q) == <<SumSeq(q), Len(q)>>

\* unique_vectors of _average_unique_flow_vectors: for each origin marker
\* the set of its flow vectors (_compute_flow_vectors: marker - pre_marker)
UniqueVectors(pre, post) ==
    [o \in SeqSet(pre) |-> {post[i] - pre[i] : i \in {k \in 1..Len(pre) : pre[k] = o}}]

\* _average_unique_flow_vectors, ord[o] the order in which the set of origin
\* o is listed: origin |-> <<sum, count>> of its mean vector
AverageUniqueFlowVectors(pre, post, ord) ==
    [o \in SeqSet(pre) |-> MeanOfList(ord[o])]

\* The orders in which the sets of unique_vectors may be listed.
ListOrders(uv) == {ord \in [DOMAIN uv -> UNION {Orderings(uv[o]) : o \in DOMAIN uv}] :
                      \A o \in DOMAIN uv : ord[o] \in Orderings(uv[o])}

\* The call _get_cost_matrix(t, ...) of _run_hu_tracking: the frames whose
\* descriptors it is given (pre_stats_vecs and pre_hu_vecs are those of frame
\* kept) and the frames whose markers _get_distance_mask(t) reads.
HuCostMatrixCall(t, kept) ==
    [ op |-> "_get_cost_matrix",
      args |-> [t |-> t, descriptors |-> <<kept, t>>, distances |-> <<t - 1, t>>],
      mask |-> {},
      result |-> <<>> ]

\* HuMomentTracking.__init__; avg_orders holds the avg_vectors of the last
\* frame pair for every order in which the sets of vectors can be listed.
HuMomentTracking ==
    [ pre_frame |-> -1,
      cost_matrix |-> <<>>,
      row_matches |-> <<>>,
      col_matches |-> <<>>,
      confident |-> <<>>,
      avg_vectors |-> EmptyDict,
      avg_orders |-> {},
      num_vectors |-> 0,
      call |-> NoHuCall ]

\* --------------------------------------------- the distance gate, compared

\* The (track, node) pairs tiers 1 and 2 accept under threshold th, one set
\* for each optimal assignment.
AcceptedSets(c, nodes, frame, th) ==
    IF nodes = <<>> THEN {{}}
    ELSE {{<<a.track, a.node>> : a \in SeqSet(PopulateFrame(c, nodes, frame, th, p).acc)} :
            p \in FrameAssignments(c, nodes, frame, th)}

\* The (track, node) pairs the gate leaves reachable under threshold th.
ReachablePairs(c, nodes, frame, th) ==
    LET cm == AssignmentMatrix(c.tracks, nodes, frame, th)
    IN  {<<i, j>> \in (0..(Len(c.tracks) - 1)) \X (0..(Len(nodes) - 1)) : cm[i][j] # Inf}

NoGate == [th2 |-> 0, lo |-> {}, hi |-> {}, reach_lo |-> {}, reach_hi |-> {}]

\* The frame pair matched under thresh and under the larger threshold th2.
GateOf(c, nodes, frame, th, th2) ==
    [ th2 |-> th2,
      lo |-> AcceptedSets(c, nodes, frame, th),
      hi |-> AcceptedSets(c, nodes, frame, th2),
      reach_lo |-> ReachablePairs(c, nodes, frame, th),
      reach_hi |-> ReachablePairs(c, nodes, frame, th2) ]

\* ------------------------------------- flow_interpolation.FlowInterpolator
\* A row of flow_vector_array: column 0 the frame, columns 1:4 the origin,
\* columns 4:7 the vector, the last column the cost.
FlowRows == [frame : 0..1, origin : {0, 3}, vector : {1, 2}, cost : {1, 2}]

\* The order in which the tables are enumerated.
RowKey(r) == ((r.frame * 4 + r.origin) * 3 + r.vector) * 3 + r.cost

\* The flow tables of at most MaxRecords distinct rows.
FlowTables ==
    {q \in UNION {[1..n -> FlowRows] : n \in 0..MaxRecords} :
        \A k \in 1..(Len(q) - 1) : RowKey(q[k]) < RowKey(q[k + 1])}

QueryCoords == {0, 3, 5}
QueryTimes == 0..2

\* FlowInterpolator.__init__; coord, t and result are the arguments and the
\* return value of the last interpolate_coord call, <<>> standing for None.
FlowInterpolator(forward) ==
    [ forward |-> forward,
      current_t |-> -1,
      check_rows |-> <<>>,
      check_coords |-> <<>>,
      current_tree |-> <<>>,
      coord |-> -1,
      t |-> -1,
      result |-> <<>> ]

\* flow_vector_array[np.where(flow_vector_array[:, 0] == t)[0], :], with t-1
\* for t in a backward interpolator
CheckRows(table, forward, t) ==
    LET want == IF forward THEN t ELSE t - 1
        RECURSIVE Sel(_)
        Sel(q) == IF q = <<>> THEN <<>>
                  ELSE IF Head(q).frame = want THEN <<Head(q)>> \o Sel(Tail(q))
                  ELSE Sel(Tail(q))
    IN  Sel(table)

\* check_rows[:, 1:4], with the vector added in a backward interpolator
CheckCoords(rows, forward) ==
    [k \in 1..Len(rows) |->
        IF forward THEN rows[k].origin ELSE rows[k].origin + rows[k].vector]

\* query_ball_point: the indices of the tree's points within the radius
BallPoint(tree, coord, radius) == {k \in 1..Len(tree) : Abs(tree[k] - coord) <= radius}

\* current_tree.query(coord, k)[0]: the k smallest distances, ascending
RECURSIVE SortedDistances(_, _, _)
SortedDistances(tree, S, coord) ==
    IF S = {} THEN <<>>
    ELSE LET k == CHOOSE k \in S : \A j \in S : Abs(tree[k] - coord) <= Abs(tree[j] - coord)
         IN  <<Abs(tree[k] - coord)>> \o SortedDistances(tree, S \ {k}, coord)

RECURSIVE Product(_)
Product(q) == IF q = <<>> THEN 1 ELSE Head(q) * Product(Tail(q))

\* The weights without the shift that makes the smallest of them 1.
VectorWeightsUnshifted(check_rows, nearby_idxs, distances) ==
    LET n == Len(nearby_idxs)
        unit == IF Min(SeqSet(distances)) = 0 THEN 1 ELSE Product(distances)
    IN  [i \in 1..n |->
            (0 - check_rows[nearby_idxs[i]].cost) *
            (IF Min(SeqSet(distances)) = 0
             THEN (IF distances[i] = 0 THEN 1 ELSE 0)
             ELSE unit \div distances[i])]

\* _get_vector_weights: the weights before the division by their sum, in
\* units of 1 / Product(distances) when no distance is zero.
VectorWeights(check_rows, nearby_idxs, distances) ==
    LET n == Len(nearby_idxs)
        unit == IF Min(SeqSet(distances)) = 0 THEN 1 ELSE Product(distances)
        cost_weights == [i \in 1..n |-> 0 - check_rows[nearby_idxs[i]].cost]
        distance_weights == [i \in 1..n |->
                                IF Min(SeqSet(distances)) = 0
                                THEN (IF distances[i] = 0 THEN 1 ELSE 0)
                                ELSE unit \div distances[i]]
        weights == [i \in 1..n |-> cost_weights[i] * distance_weights[i]]
    IN  [i \in 1..n |-> weights[i] - (Min(SeqSet(weights)) - unit)]

\* _get_final_vector: the sum of the weighted vectors as <<numerator,
\* denominator>>
FinalVector(check_rows, nearby_idxs, weights) ==
    << SumSeq([i \in 1..Len(nearby_idxs) |-> check_rows[nearby_idxs[i]].vector * weights[i]]),
       SumSeq(weights) >>

\* interpolate_coord(coord, t) on the interpolator f; order lists the
\* indices of query_ball_point as it returns them.
InterpolateCoord(f, table, radius, coord, t, order) ==
    LET fresh == f.current_t # t
        rows == IF fresh THEN CheckRows(table, f.forward, t) ELSE f.check_rows
        coords == IF fresh THEN CheckCoords(rows, f.forward) ELSE f.check_coords
        tree == IF fresh THEN coords ELSE f.current_tree
        distances == SortedDistances(tree, SeqSet(order), coord)
        g == [f EXCEPT !.check_rows = rows, !.check_coords = coords,
                       !.current_tree = tree, !.coord = coord, !.t = t]
    IN  IF order = <<>> THEN [g EXCEPT !.result = <<>>]
        ELSE [g EXCEPT !.current_t = t,
                       !.result = FinalVector(rows, order, VectorWeights(rows, order, distances))]

\* The tree interpolate_coord(coord, t) queries.
TreeFor(f, table, t) ==
    IF f.current_t # t THEN CheckCoords(CheckRows(table, f.forward, t), f.forward)
    ELSE f.current_tree

\* --------------------------------------- voxel_reassignment.VoxelReassigner
VoxCoords == 0..4

\* np.argwhere(test_label[t] > 0): the foreground voxels of a frame, ascending
VoxelSets == {SortedSeq(S) : S \in {T \in SUBSET VoxCoords : Cardinality(T) <= MaxVoxels}}

\* _distance_threshold: (vox_next_matched_valid, vox_prev_matched_valid,
\* distances_valid)
DistanceThreshold(vox_prev_matched, vox_next_matched, max) ==
    LET keep == FlattenSeq([k \in 1..Len(vox_prev_matched) |->
                    IF Abs(vox_prev_matched[k] - vox_next_matched[k]) < max
                    THEN <<k>> ELSE <<>>])
    IN  << [i \in 1..Len(keep) |-> vox_next_matched[keep[i]]],
           [i \in 1..Len(keep) |-> vox_prev_matched[keep[i]]],
           [i \in 1..Len(keep) |-> Abs(vox_prev_matched[keep[i]] - vox_next_matched[keep[i]])] >>

\* The keys of match_dict in insertion order
RECURSIVE FirstSeen(_, _)
FirstSeen(q, seen) ==
    IF q = <<>> THEN <<>>
    ELSE IF Head(q) \in seen THEN FirstSeen(Tail(q), seen)
    ELSE <<Head(q)>> \o FirstSeen(Tail(q), seen \cup {Head(q)})

\* _assign_unique_matches: (vox_prev_matches, vox_next_matches)
AssignUniqueMatches(matches, distances, kept_coords) ==
    LET keys == FirstSeen(matches, {})
        at(m) == FlattenSeq([k \in 1..Len(matches) |-> IF matches[k] = m THEN <<k>> ELSE <<>>])
        min_idx(m) == ArgMin([i \in 1..Len(at(m)) |-> distances[at(m)[i]]])
    IN  << [i \in 1..Len(keys) |-> kept_coords[at(keys[i])[min_idx(keys[i])]]],
           keys >>

\* unmatched_coords: the coords of vox_next not in next_coords_matched
UnmatchedCoords(vox_next, next_coords_matched) ==
    FlattenSeq([k \in 1..Len(vox_next) |->
        IF vox_next[k] \in SeqSet(next_coords_matched) THEN <<>> ELSE <<vox_next[k]>>])

\* tree.query(unmatched_coords, k=1): for each unmatched voxel the index of
\* a nearest matched voxel; which of several equally near ones is returned
\* is the tree's choice.
NearestChoices(next_coords_matched, unmatched_coords) ==
    {idxs \in [1..Len(unmatched_coords) -> 1..Len(next_coords_matched)] :
        \A i \in 1..Len(unmatched_coords) : \A j \in 1..Len(next_coords_matched) :
            Abs(next_coords_matched[idxs[i]] - unmatched_coords[i])
                <= Abs(next_coords_matched[j] - unmatched_coords[i])}

\* The pass with every unmatched voxel taken as its own prev voxel.
ResidualIterationOwnPrev(w, vox_next, max, idxs) ==
    LET hit == FlattenSeq([i \in 1..Len(w.unmatched_coords) |->
                    IF Abs(w.next_coords_matched[idxs[i]] - w.unmatched_coords[i]) < max
                    THEN <<i>> ELSE <<>>])
        prev2 == w.prev_coords_matched \o [k \in 1..Len(hit) |-> w.unmatched_coords[hit[k]]]
        next2 == w.next_coords_matched \o [k \in 1..Len(hit) |-> w.unmatched_coords[hit[k]]]
        un2 == UnmatchedCoords(vox_next, next2)
    IN  IF hit = <<>> THEN [w EXCEPT !.pc = "returned", !.iterations = @ + 1]
        ELSE [w EXCEPT !.prev_coords_matched = prev2,
                       !.next_coords_matched = next2,
                       !.unmatched_coords = un2,
                       !.unmatched_diff = Len(w.unmatched_coords) - Len(un2),
                       !.iterations = @ + 1,
                       !.pc = IF Len(w.unmatched_coords) - Len(un2) = 0
                              THEN "returned" ELSE "loop"]

\* One pass of the while loop of match_voxels on the loop state w, idxs the
\* answer of the tree
ResidualIteration(w, vox_next, max, idxs) ==
    LET hit == FlattenSeq([i \in 1..Len(w.unmatched_coords) |->
                    IF Abs(w.next_coords_matched[idxs[i]] - w.unmatched_coords[i]) < max
                    THEN <<i>> ELSE <<>>])
        prev2 == w.prev_coords_matched \o [k \in 1..Len(hit) |-> w.prev_coords_matched[idxs[hit[k]]]]
        next2 == w.next_coords_matched \o [k \in 1..Len(hit) |-> w.unmatched_coords[hit[k]]]
        un2 == UnmatchedCoords(vox_next, next2)
    IN  IF hit = <<>> THEN [w EXCEPT !.pc = "returned", !.iterations = @ + 1]
        ELSE [w EXCEPT !.prev_coords_matched = prev2,
                       !.next_coords_matched = next2,
                       !.unmatched_coords = un2,
                       !.unmatched_diff = Len(w.unmatched_coords) - Len(un2),
                       !.iterations = @ + 1,
                       !.pc = IF Len(w.unmatched_coords) - Len(un2) = 0
                              THEN "returned" ELSE "loop"]

\* The state of a call: op the function called, its arguments and result.
NoCall == [op |-> "none", pc |-> "none", args |-> <<>>, result |-> <<>>,
           prev_coords_matched |-> <<>>, next_coords_matched |-> <<>>,
           unmatched_coords |-> <<>>, unmatched_diff |-> 1, iterations |-> 0,
           err |-> "none"]

\* The script of voxel_reassignment before its loop: the masks of the
\* frames, the label image with frame 0 seeded, vox_prev, and the frame t.
VoxelReassigner(masks) ==
    [ all_mask_coords |-> masks,
      new_label_im |-> [f \in 1..Len(masks) |->
                          [c \in VoxCoords |->
                              IF f = 1 /\ c \in SeqSet(masks[1]) THEN c + 1 ELSE 0]],
      vox_prev |-> masks[1],
      t |-> 0,
      done |-> FALSE,
      err |-> "none",
      call |-> NoCall ]

\* The pairs _find_best_matches returns under the maximum distance max,
\* and the pairs its gate leaves reachable.
HuGateOf(post, pre, th, th2) ==
    LET zlo == HuCostMatrix(post, pre, th)
        zhi == HuCostMatrix(post, pre, th2)
        mlo == FindBestMatches(zlo, Len(post), Len(pre))
        mhi == FindBestMatches(zhi, Len(post), Len(pre))
    IN  [ th2 |-> th2,
          lo |-> {{<<mlo.col_matches[k], mlo.row_matches[k]>> : k \in 1..Len(mlo.row_matches)}},
          hi |-> {{<<mhi.col_matches[k], mhi.row_matches[k]>> : k \in 1..Len(mhi.row_matches)}},
          reach_lo |-> {<<e[2], e[1]>> : e \in zlo.mask},
          reach_hi |-> {<<e[2], e[1]>> : e \in zhi.mask} ]

\* The Tier-1 matches of the last frame pair: the cost matrix, its numbers
\* of real rows and columns, and the accepted (row, column) pairs.
NoMatched == [cm |-> <<>>, R |-> 0, C |-> 0, pairs |-> {}]

\* ------------------------------------------------------ io.im_info.ImInfo
\* A path is the sequence of its characters; the pieces the constructor
\* appends ("output", ".tif", ...) are single entries.
PathChars == {"a", "t", ".", "/"}

\* The paths of image files: not empty, and not ending in the separator.
ImagePaths ==
    {p \in UNION {[1..n -> PathChars] : n \in 1..MaxPathLen} : p[Len(p)] # "/"}

\* The last position of the character c in s, 0 when there is none.
LastIndex(s, c) == Max({0} \cup {k \in 1..Len(s) : s[k] = c})

\* s.split(c)[-1]
SplitLast(s, c) == SubSeq(s, LastIndex(s, c) + 1, Len(s))

\* s.split(c)[-2], for an s in which c occurs
SplitSecondLast(s, c) ==
    LET e == LastIndex(s, c)
    IN  SubSeq(s, LastIndex(SubSeq(s, 1, e - 1), c) + 1, e - 1)

\* s.split(pat)[0]
SplitFirst(s, pat) ==
    LET hits == {k \in 1..(Len(s) - Len(pat) + 1) : SubSeq(s, k, k + Len(pat) - 1) = pat}
    IN  IF hits = {} THEN s ELSE SubSeq(s, 1, Min(hits) - 1)

\* os.path.join(a, b) for a relative b
Join(a, b) ==
    IF a = <<>> THEN b
    ELSE IF a[Len(a)] = "/" THEN a \o b
    ELSE a \o <<"/">> \o b

\* The ImageJ metadata fields _get_dim_sizes reads, with the values (in
\* tenths) the unit test writes.
ImageJFields ==
    [physicalsizex |-> 1, physicalsizey |-> 2, spacing |-> 5, finterval |-> 1]

\* The image files: what tifffile finds in them.  An ImageJ file holds any
\* of the four fields, an OME file all four values, any other TIFF nothing.
ImageFiles ==
    {[type |-> "imagej", metadata |-> [k \in K |-> ImageJFields[k]]] :
        K \in SUBSET (DOMAIN ImageJFields)}
    \cup {[type |-> "ome",
           metadata |-> [physical_size_x |-> <<1>>, physical_size_y |-> <<1>>,
                         physical_size_z |-> <<5>>, time_increment |-> <<1>>]],
          [type |-> "none", metadata |-> <<>>]}

\* _get_dim_sizes: <<>> is None as a value; the result {} when reading the
\* metadata raises, as it does when metadata_type was never set.
GetDimSizes(file) ==
    LET field(k) == IF k \in DOMAIN file.metadata THEN <<file.metadata[k]>> ELSE <<>>
    IN  IF file.type = "imagej"
        THEN [X |-> field("physicalsizex"), Y |-> field("physicalsizey"),
              Z |-> field("spacing"), T |-> field("finterval"), C |-> <<1>>]
        ELSE IF file.type = "ome"
        THEN [X |-> file.metadata.physical_size_x, Y |-> file.metadata.physical_size_y,
              Z |-> file.metadata.physical_size_z, T |-> file.metadata.time_increment,
              C |-> <<1>>]
        ELSE EmptyDict

\* A dim_sizes dictionary given by the caller.
GivenDimSizes == [X |-> <<1>>, Y |-> <<1>>, Z |-> <<1>>, T |-> <<1>>]

\* No ImInfo built yet.
NoImInfo == [built |-> FALSE]

\* ImInfo.__init__(im_path, None, ch, dim_sizes) on a file tifffile can read,
\* dim_sizes = <<>> standing for None.  path_only tells that only the path
\* was given.
ImInfo(im_path, ch, dim_sizes, file, path_only) ==
    LET extension == SplitLast(im_path, ".")
        sep == "/"
        filename == SplitFirst(SplitLast(im_path, sep), <<".">> \o extension)
        dirname == IF LastIndex(im_path, sep) = 0 THEN <<>>
                   ELSE SplitSecondLast(im_path, sep)
        input_dirpath == SplitFirst(im_path, <<sep>> \o filename)
        sizes == IF dim_sizes = <<>> THEN GetDimSizes(file) ELSE dim_sizes
        raised == "X" \notin DOMAIN sizes
        output_dirpath == Join(input_dirpath, <<"output">>)
        images == Join(output_dirpath, <<"images">>)
        pickles == Join(output_dirpath, <<"pickles">>)
        out(dir, prefix, ext) == Join(dir, <<prefix>> \o filename \o <<ext>>)
    IN  [ built |-> TRUE,
          path_only |-> path_only,
          im_path |-> im_path,
          ch |-> <<ch>>,
          dim_sizes |-> sizes,
          extension |-> extension,
          sep |-> sep,
          filename |-> filename,
          dirname |-> dirname,
          input_dirpath |-> input_dirpath,
          metadata_type |-> file.type,
          err |-> IF raised THEN "KeyError" ELSE "none",
          output_dirpath |-> IF raised THEN <<>> ELSE output_dirpath,
          output_images_dirpath |-> IF raised THEN <<>> ELSE images,
          output_pickles_dirpath |-> IF raised THEN <<>> ELSE pickles,
          output_csv_dirpath |-> IF raised THEN <<>> ELSE Join(output_dirpath, <<"csv">>),
          path_im_frangi |-> IF raised THEN <<>> ELSE out(images, "frangi-", ".tif"),
          path_im_mask |-> IF raised THEN <<>> ELSE out(images, "mask-", ".tif"),
          path_im_skeleton |-> IF raised THEN <<>> ELSE out(images, "skeleton-", ".tif"),
          path_im_label_obj |-> IF raised THEN <<>> ELSE out(images, "label_obj-", ".tif"),
          path_im_label_seg |-> IF raised THEN <<>> ELSE out(images, "label_seg-", ".tif"),
          path_im_network |-> IF raised THEN <<>> ELSE out(images, "network-", ".tif"),
          path_im_event |-> IF raised THEN <<>> ELSE out(images, "event-", ".tif"),
          path_pickle_obj |-> IF raised THEN <<>> ELSE out(pickles, "obj-", ".pkl"),
          path_pickle_seg |-> IF raised THEN <<>> ELSE out(pickles, "seg-", ".pkl"),
          path_pickle_track |-> IF raised THEN <<>> ELSE out(pickles, "track-", ".pkl") ]

\* ------------------------------------------- segmentation.labelling.Label
\* A label image is held as the set of the positive values in it.

\* Label.__init__ and run up to _run_segmentation: instance_label_memmap
\* allocated with num_t frames, t the number of frames written.
Label(num_t, snr_cleaning) ==
    [ built |-> TRUE,
      num_t |-> num_t,
      snr_cleaning |-> snr_cleaning,
      max_label_num |-> 0,
      instance_label_memmap |-> [f \in 1..num_t |-> {}],
      t |-> 0 ]

\* No Label built.
NoLabel == [built |-> FALSE]

\* The labels _get_labels may return for a frame, ndi.label numbering the n
\* objects it finds 1..n, after _get_object_snrs has kept some of them when
\* snr_cleaning is set.
FrameLabels(snr_cleaning) ==
    IF snr_cleaning THEN UNION {SUBSET (1..n) : n \in 0..MaxObjects}
    ELSE {1..n : n \in 0..MaxObjects}

\* xp.max(labels) of a frame that has background
MaxLabel(labels) == Max({0} \cup labels)

\* _run_frame(t) on a frame with the labels found, and the write of
\* _run_segmentation
RunFrame(l, found) ==
    LET labels == {k + l.max_label_num : k \in found}
    IN  [l EXCEPT !.max_label_num = MaxLabel(labels),
                  !.instance_label_memmap = [@ EXCEPT ![l.t + 1] = labels],
                  !.t = l.t + 1]

\* ------------------------------------------------------------ the trackers
TrackerSystems == {"node_tracking", "node_to_node", "hu"}

\* No voxel reassigner is set up while a tracker runs.
NoVoxelReassigner == VoxelReassigner(<<<<>>, <<>>>>)

Init ==
    /\ sys \in TrackerSystems
    /\ frames \in [1..NumFrames -> FrameChoices(Positions)]
    /\ thresh \in Thresholds
    /\ frame_num = 0
    /\ err = "none"
    /\ ntc = NodeTrackConstructor
    /\ n2n = N2NConstructor
    /\ hu = HuMomentTracking
    /\ gate = NoGate
    /\ matched = NoMatched
    /\ flow = <<>>
    /\ fi = FlowInterpolator(TRUE)
    /\ vox = NoVoxelReassigner
    /\ im_info = NoImInfo
    /\ label = NoLabel

\* populate_tracks, frame 0
NTInitializeTracks ==
    /\ sys = "node_tracking" /\ err = "none" /\ frame_num = 0
    /\ ntc' = InitializeTracks(ntc, frames[1])
    /\ frame_num' = 1
    /\ UNCHANGED <<sys, im_info, label, frames, thresh, err, n2n, hu, gate, matched, flow, fi, vox>>

\* populate_tracks, a frame >= 1 without nodes: frame_nodes[0] raises
NTEmptyFrame ==
    /\ sys = "node_tracking" /\ err = "none"
    /\ frame_num >= 1 /\ frame_num < Len(frames)
    /\ frames[frame_num + 1] = <<>>
    /\ ntc' = AssignmentMatrixStart(ntc, <<>>)
    /\ err' = "IndexError"
    /\ UNCHANGED <<sys, im_info, label, frames, thresh, frame_num, n2n, hu, gate, matched, flow, fi, vox>>

\* populate_tracks, a frame >= 1 with nodes
NTPopulateFrame ==
    /\ sys = "node_tracking" /\ err = "none"
    /\ frame_num >= 1 /\ frame_num < Len(frames)
    /\ frames[frame_num + 1] # <<>>
    /\ \E p \in FrameAssignments(ntc, frames[frame_num + 1], frame_num, thresh) :
          LET r == PopulateFrame(ntc, frames[frame_num + 1], frame_num, thresh, p)
          IN  /\ ntc' = r.c
              /\ err' = r.err
              /\ frame_num' = IF r.err = "none" THEN frame_num + 1 ELSE frame_num
              /\ matched' = [ cm |-> r.c.cost_matrix,
                              R |-> r.c.num_tracks,
                              C |-> r.c.num_nodes,
                              pairs |-> {<<a.track, a.node>> :
                                          a \in {b \in SeqSet(r.acc) : b.confident = 1}} ]
    /\ \E th2 \in {t \in Thresholds : t >= thresh} :
          gate' = GateOf(ntc, frames[frame_num + 1], frame_num, thresh, th2)
    /\ UNCHANGED <<sys, im_info, label, frames, thresh, n2n, hu, flow, fi, vox>>

\* node_to_node.populate_tracks: _initialize_tracks and frame 0
N2NInitializeTracks ==
    /\ sys = "node_to_node" /\ err = "none" /\ frame_num = 0
    /\ n2n' = [N2NInitialize(n2n, frames) EXCEPT !.current_frame_num = 0]
    /\ frame_num' = 1
    /\ UNCHANGED <<sys, im_info, label, frames, thresh, err, ntc, hu, gate, matched, flow, fi, vox>>

\* node_to_node.populate_tracks, a frame >= 1 when it or the frame before
\* holds no node: tracks_t1[0] or tracks_t2[0] raises
N2NEmptyFrame ==
    /\ sys = "node_to_node" /\ err = "none"
    /\ frame_num >= 1 /\ frame_num < Len(frames)
    /\ frames[frame_num] = <<>> \/ frames[frame_num + 1] = <<>>
    /\ n2n' = [n2n EXCEPT
                !.current_frame_num = frame_num,
                !.num_tracks_t1 = Len(frames[frame_num]),
                !.num_tracks_t2 = Len(frames[frame_num + 1]),
                !.t1_remaining = IF frames[frame_num] = <<>> THEN @
                                 ELSE Range(Len(frames[frame_num])),
                !.t2_remaining = IF frames[frame_num] = <<>> THEN @
                                 ELSE Range(Len(frames[frame_num + 1]))]
    /\ err' = "IndexError"
    /\ UNCHANGED <<sys, im_info, label, frames, thresh, frame_num, ntc, hu, gate, matched, flow, fi, vox>>

\* node_to_node.populate_tracks, a frame >= 1
N2NPopulateFrame ==
    /\ sys = "node_to_node" /\ err = "none"
    /\ frame_num >= 1 /\ frame_num < Len(frames)
    /\ frames[frame_num] # <<>> /\ frames[frame_num + 1] # <<>>
    /\ LET R == Len(frames[frame_num])
           C == Len(frames[frame_num + 1])
           cm == N2NAssignmentMatrix(frames[frame_num], frames[frame_num + 1], thresh)
       IN  \E p \in LinearSumAssignment(cm, R, C, thresh) :
              /\ n2n' = [n2n EXCEPT
                          !.current_frame_num = frame_num,
                          !.num_tracks_t1 = R,
                          !.num_tracks_t2 = C,
                          !.t1_remaining = Range(R),
                          !.t2_remaining = Range(C),
                          !.cost_matrix = cm,
                          !.t1_t2_assignment = p,
                          !.tracks = N2NConfidence1(n2n.tracks, cm, R, C, p, frame_num)]
              /\ matched' = [ cm |-> cm, R |-> R, C |-> C,
                              pairs |-> {<<m, p[m]>> : m \in {k \in 0..(R + C - 1) :
                                            N2NConfident(cm, R + C, R, C, k, p[k])}} ]
    /\ frame_num' = frame_num + 1
    /\ UNCHANGED <<sys, im_info, label, frames, thresh, err, ntc, hu, gate, flow, fi, vox>>

\* _run_hu_tracking, a frame without markers: xp.max of an empty selection
\* raises in _get_feature_matrix
HuEmptyFrame ==
    /\ sys = "hu" /\ err = "none" /\ frame_num < Len(frames)
    /\ Markers(frames, frame_num) = <<>>
    /\ err' = "ValueError"
    /\ UNCHANGED <<sys, im_info, label, frames, thresh, frame_num, ntc, n2n, hu, gate, matched, flow, fi, vox>>

\* _run_hu_tracking, the first frame: its descriptors are kept
HuFirstFrame ==
    /\ sys = "hu" /\ err = "none" /\ frame_num < Len(frames)
    /\ Markers(frames, frame_num) # <<>>
    /\ hu.pre_frame = -1
    /\ hu' = [hu EXCEPT !.pre_frame = frame_num]
    /\ frame_num' = frame_num + 1
    /\ UNCHANGED <<sys, im_info, label, frames, thresh, err, ntc, n2n, gate, matched, flow, fi, vox>>

\* _run_hu_tracking, a later frame: _get_cost_matrix, _find_best_matches and
\* _get_vectors.  The descriptors kept are those of frame hu.pre_frame; when
\* their number differs from the number of markers of frame t-1 the
\* normalisation raises.
HuFrame ==
    /\ sys = "hu" /\ err = "none" /\ frame_num < Len(frames)
    /\ Markers(frames, frame_num) # <<>>
    /\ hu.pre_frame # -1
    /\ LET post == Markers(frames, frame_num)
           pre == Markers(frames, frame_num - 1)
           kept == Len(Markers(frames, hu.pre_frame))
           z == HuCostMatrix(post, pre, thresh)
           m == FindBestMatches(z, Len(post), Len(pre))
           pre_marker_indices == [k \in 1..Len(m.col_matches) |-> pre[m.col_matches[k] + 1]]
           marker_indices == [k \in 1..Len(m.row_matches) |-> post[m.row_matches[k] + 1]]
           uv == UniqueVectors(pre_marker_indices, marker_indices)
           call == HuCostMatrixCall(frame_num, hu.pre_frame)
       IN  IF kept # Len(pre)
           THEN /\ err' = IF kept = 1 \/ Len(pre) = 1 THEN "IndexError" ELSE "ValueError"
                /\ hu' = [hu EXCEPT !.call = call]
                /\ UNCHANGED <<frame_num, gate>>
           ELSE /\ \E ord \in ListOrders(uv) :
                      hu' = [hu EXCEPT
                              !.call = call,
                              !.cost_matrix = z,
                              !.row_matches = m.row_matches,
                              !.col_matches = m.col_matches,
                              !.avg_vectors = AverageUniqueFlowVectors(pre_marker_indices,
                                                                       marker_indices, ord),
                              !.avg_orders = {AverageUniqueFlowVectors(pre_marker_indices,
                                                  marker_indices, o) : o \in ListOrders(uv)},
                              !.num_vectors = IF m.row_matches = <<>> THEN @ ELSE @ + 1]
                /\ err' = IF m.row_matches = <<>> THEN "ValueError" ELSE "none"
                /\ frame_num' = IF m.row_matches = <<>> THEN frame_num ELSE frame_num + 1
                /\ \E th2 \in {t \in Thresholds : t >= thresh} :
                      gate' = HuGateOf(post, pre, thresh, th2)
    /\ UNCHANGED <<sys, im_info, label, frames, thresh, ntc, n2n, matched, flow, fi, vox>>

\* _find_confident_matches on the cost matrix of the last frame pair
HuFindConfidentMatches ==
    /\ sys = "hu" /\ hu.cost_matrix # <<>>
    /\ hu.confident = <<>>
    /\ LET cm == hu.cost_matrix.cm
           Rr == Cardinality(DOMAIN cm)
           Cc == Cardinality(DOMAIN cm[0])
           f == FindConfidentMatches(cm, Rr, Cc)
       IN  /\ hu' = [hu EXCEPT !.confident = <<f>>]
           /\ matched' = [ cm |-> cm, R |-> Rr, C |-> Cc,
                           pairs |-> {<<f.row_indices[k], f.col_indices[k]>> :
                                        k \in 1..Len(f.row_indices)} ]
    /\ UNCHANGED <<sys, im_info, label, frames, thresh, frame_num, err, ntc, n2n, gate, flow, fi, vox>>

Next ==
    \/ NTInitializeTracks
    \/ NTEmptyFrame
    \/ NTPopulateFrame
    \/ N2NInitializeTracks
    \/ N2NEmptyFrame
    \/ N2NPopulateFrame
    \/ HuEmptyFrame
    \/ HuFirstFrame
    \/ HuFrame
    \/ HuFindConfidentMatches

Spec == Init /\ [][Next]_vars

\* ------------------------------------- one descriptor channel, normalised
\* The moment tracker about to normalise a descriptor channel of a frame
\* pair.
InitDescriptor ==
    /\ sys = "hu_descriptor"
    /\ frames \in {PairFrames(SortedSeq(A), SortedSeq(B)) :
                        A \in (SUBSET PairPositions) \ {{}}, B \in (SUBSET PairPositions) \ {{}}}
    /\ \A f \in 1..2 : Len(frames[f]) <= MaxNodes
    /\ thresh \in Thresholds
    /\ frame_num = 1
    /\ err = "none"
    /\ ntc = NodeTrackConstructor
    /\ n2n = N2NConstructor
    /\ hu = HuMomentTracking
    /\ gate = NoGate
    /\ matched = NoMatched
    /\ flow = <<>>
    /\ fi = FlowInterpolator(TRUE)
    /\ vox = NoVoxelReassigner
    /\ im_info = NoImInfo
    /\ label = NoLabel

\* _get_cost_matrix, one descriptor channel: _get_difference_matrix of the
\* descriptors of the markers of frames 1 and 0, then _zscore_normalize under
\* the distance mask
HuZscoreDescriptor ==
    /\ sys = "hu_descriptor" /\ hu.call.op = "none"
    /\ LET post == Markers(frames, 1)
           pre == Markers(frames, 0)
           mask == HuDistanceMask(HuDistance(post, pre), thresh)
       IN  \E vecs \in [1..Len(post) -> DescriptorValues] :
           \E pre_vecs \in [1..Len(pre) -> DescriptorValues] :
               hu' = [hu EXCEPT !.call =
                        [op |-> "_zscore_normalize",
                         args |-> <<vecs, pre_vecs>>,
                         mask |-> mask,
                         result |-> ZscoreNormalize(DifferenceMatrix(vecs, pre_vecs), mask)]]
    /\ UNCHANGED <<sys, im_info, label, frames, thresh, frame_num, err, ntc, n2n, gate, matched, flow, fi, vox>>

NextDescriptor == HuZscoreDescriptor

SpecDescriptor == InitDescriptor /\ [][NextDescriptor]_vars

\* The trackers on one frame pair, its centroids out of PairPositions.
InitPair ==
    /\ sys \in TrackerSystems
    /\ frames \in {PairFrames(a, b) : a \in FrameChoices(PairPositions),
                                       b \in FrameChoices(PairPositions)}
    /\ thresh \in Thresholds
    /\ frame_num = 0
    /\ err = "none"
    /\ ntc = NodeTrackConstructor
    /\ n2n = N2NConstructor
    /\ hu = HuMomentTracking
    /\ gate = NoGate
    /\ matched = NoMatched
    /\ flow = <<>>
    /\ fi = FlowInterpolator(TRUE)
    /\ vox = NoVoxelReassigner
    /\ im_info = NoImInfo
    /\ label = NoLabel

SpecPair == InitPair /\ [][Next]_vars

\* ------------------------------- _run_hu_tracking over NumHuFrames frames
InitHuFrames ==
    /\ sys = "hu"
    /\ frames \in [1..NumHuFrames ->
                     {SortedSeq(S) : S \in {X \in SUBSET Positions : Cardinality(X) <= MaxNodes}}]
    /\ thresh \in Thresholds
    /\ frame_num = 0
    /\ err = "none"
    /\ ntc = NodeTrackConstructor
    /\ n2n = N2NConstructor
    /\ hu = HuMomentTracking
    /\ gate = NoGate
    /\ matched = NoMatched
    /\ flow = <<>>
    /\ fi = FlowInterpolator(TRUE)
    /\ vox = NoVoxelReassigner
    /\ im_info = NoImInfo
    /\ label = NoLabel

NextHuFrames ==
    \/ HuEmptyFrame
    \/ HuFirstFrame
    \/ HuFrame
    \/ HuFindConfidentMatches

SpecHuFrames == InitHuFrames /\ [][NextHuFrames]_vars

\* ------------------------ the tiers of node_tracking, one call at a time
\* The node lists of the frame pair: up to MaxTierNodes centroids.
TierFrameChoices ==
    LET sets == {S \in SUBSET PairPositions : S # {} /\ Cardinality(S) <= MaxTierNodes}
    IN  {SortedSeq(S) : S \in sets} \cup {Reverse(SortedSeq(S)) : S \in sets}

InitTiers ==
    /\ sys = "tiers"
    /\ frames \in {PairFrames(a, b) : a \in TierFrameChoices, b \in TierFrameChoices}
    /\ thresh \in Thresholds
    /\ frame_num = 0
    /\ err = "none"
    /\ ntc = NodeTrackConstructor
    /\ n2n = N2NConstructor
    /\ hu = HuMomentTracking
    /\ gate = NoGate
    /\ matched = NoMatched
    /\ flow = <<>>
    /\ fi = FlowInterpolator(TRUE)
    /\ vox = NoVoxelReassigner
    /\ im_info = NoImInfo
    /\ label = NoLabel

\* The frame pair as the constructor holds it between the tiers.
TierContextOf(c, th) ==
    [ cm |-> c.cost_matrix,
      T |-> c.num_tracks,
      N |-> c.num_nodes,
      th |-> th * CostScale,
      node_nums |-> c.node_nums ]

\* The lists of the constructor as a tier's state.
TierStateOf(c) ==
    [tta |-> c.tracks_to_assign, nta |-> c.nodes_to_assign, acc |-> <<>>, err |-> "none"]

\* The constructor after a tier that ended in state s.
AfterTier(c, s, nodes, frame, tier) ==
    [c EXCEPT !.tracks = ApplyAccepted(c.tracks, s.acc, nodes, frame),
              !.tracks_to_assign = s.tta,
              !.nodes_to_assign = s.nta,
              !.tier = tier]

\* populate_tracks, frame 0
TiersInitializeTracks ==
    /\ sys = "tiers" /\ err = "none" /\ frame_num = 0
    /\ ntc' = InitializeTracks(ntc, frames[1])
    /\ frame_num' = 1
    /\ UNCHANGED <<sys, im_info, label, frames, thresh, err, n2n, hu, gate, matched, flow, fi, vox>>

\* _get_assignment_matrix and linear_sum_assignment for frame 1
TiersAssignmentMatrix ==
    /\ sys = "tiers" /\ err = "none" /\ frame_num = 1 /\ ntc.tier = "none"
    /\ \E p \in FrameAssignments(ntc, frames[2], 1, thresh) :
          ntc' = [AssignmentMatrixStart(ntc, frames[2]) EXCEPT
                     !.cost_matrix = AssignmentMatrix(ntc.tracks, frames[2], 1, thresh),
                     !.node_nums = p,
                     !.average_assignment_cost =
                         DictPut(@, 1,
                             <<SumSeq([r \in 1..(Len(ntc.tracks) + Len(frames[2])) |->
                                   AssignmentMatrix(ntc.tracks, frames[2], 1, thresh)[r - 1][p[r - 1]]]),
                               Len(ntc.tracks) + Len(frames[2])>>),
                     !.tier = "matrix"]
    /\ UNCHANGED <<sys, im_info, label, frames, thresh, frame_num, err, n2n, hu, gate, matched, flow, fi, vox>>

\* _assign_confidence_1_matches
TiersConfidence1 ==
    /\ sys = "tiers" /\ err = "none" /\ ntc.tier = "matrix"
    /\ LET s == AssignConfidence1(TierContextOf(ntc, thresh), TierStateOf(ntc))
       IN  /\ ntc' = AfterTier(ntc, s, frames[2], 1, "1")
           /\ err' = s.err
    /\ UNCHANGED <<sys, im_info, label, frames, thresh, frame_num, n2n, hu, gate, matched, flow, fi, vox>>

\* _assign_confidence_2_matches
TiersConfidence2 ==
    /\ sys = "tiers" /\ err = "none" /\ ntc.tier = "1"
    /\ LET s == AssignConfidence2(TierContextOf(ntc, thresh), TierStateOf(ntc))
       IN  /\ ntc' = AfterTier(ntc, s, frames[2], 1, "2")
           /\ err' = s.err
    /\ UNCHANGED <<sys, im_info, label, frames, thresh, frame_num, n2n, hu, gate, matched, flow, fi, vox>>

\* _assign_confidence_3_matches
TiersConfidence3 ==
    /\ sys = "tiers" /\ err = "none" /\ ntc.tier = "2"
    /\ LET s == AssignConfidence3(TierContextOf(ntc, thresh), TierStateOf(ntc))
       IN  /\ ntc' = AfterTier(ntc, s, frames[2], 1, "3")
           /\ err' = s.err
    /\ UNCHANGED <<sys, im_info, label, frames, thresh, frame_num, n2n, hu, gate, matched, flow, fi, vox>>

\* _check_unassigned_tracks and _check_new_tracks, the end of the loop body
TiersBookkeeping ==
    /\ sys = "tiers" /\ err = "none" /\ ntc.tier = "3"
    /\ LET x == TierContextOf(ntc, thresh)
       IN  ntc' = [ntc EXCEPT
                      !.tracks = CheckNewTracks(x, CheckUnassignedTracks(x, ntc.tracks, 1),
                                                frames[2], 1),
                      !.tier = "done"]
    /\ frame_num' = 2
    /\ UNCHANGED <<sys, im_info, label, frames, thresh, err, n2n, hu, gate, matched, flow, fi, vox>>

NextTiers ==
    \/ TiersInitializeTracks
    \/ TiersAssignmentMatrix
    \/ TiersConfidence1
    \/ TiersConfidence2
    \/ TiersConfidence3
    \/ TiersBookkeeping

SpecTiers == InitTiers /\ [][NextTiers]_vars

\* ------------------------------------------------- the flow interpolator
InitFlow ==
    /\ sys = "flow"
    /\ frames = [f \in 1..NumFrames |-> <<>>]
    /\ thresh \in Thresholds
    /\ frame_num = 0
    /\ err = "none"
    /\ ntc = NodeTrackConstructor
    /\ n2n = N2NConstructor
    /\ hu = HuMomentTracking
    /\ gate = NoGate
    /\ matched = NoMatched
    /\ flow \in FlowTables
    /\ fi \in {FlowInterpolator(b) : b \in BOOLEAN}
    /\ vox = NoVoxelReassigner
    /\ im_info = NoImInfo
    /\ label = NoLabel

\* interpolate_coord(coord, t) with max_distance_um = thresh
FIInterpolateCoord ==
    /\ sys = "flow"
    /\ \E coord \in QueryCoords : \E t \in QueryTimes :
          \E order \in Orderings(BallPoint(TreeFor(fi, flow, t), coord, thresh)) :
              fi' = InterpolateCoord(fi, flow, thresh, coord, t, order)
    /\ UNCHANGED <<sys, im_info, label, frames, thresh, frame_num, err, ntc, n2n, hu, gate, matched, flow, vox>>

NextFlow == FIInterpolateCoord

SpecFlow == InitFlow /\ [][NextFlow]_vars

\* --------------------------------------------------- the voxel reassigner
\* The flow tables of the reassigner's scenes: at most one row, of frame 0.
VoxFlowTables == {q \in FlowTables : Len(q) <= 1 /\ \A k \in 1..Len(q) : q[k].frame = 0 /\ q[k].cost = 1}

\* Pairs of equally long coordinate lists of at most MaxVoxels entries, the
\* first over the voxels A, the second over the voxels B.
CoordLists(A, B) ==
    UNION {[1..n -> A] \X [1..n -> B] : n \in 0..MaxVoxels}

InitVox ==
    /\ sys = "voxel"
    /\ frames = [f \in 1..NumFrames |-> <<>>]
    /\ thresh \in Thresholds
    /\ frame_num = 0
    /\ err = "none"
    /\ ntc = NodeTrackConstructor
    /\ n2n = N2NConstructor
    /\ hu = HuMomentTracking
    /\ gate = NoGate
    /\ matched = NoMatched
    /\ flow \in VoxFlowTables
    /\ fi = FlowInterpolator(TRUE)
    /\ vox \in {VoxelReassigner(<<a, b>>) : a \in VoxelSets, b \in VoxelSets}
    /\ im_info = NoImInfo
    /\ label = NoLabel

\* match_voxels(vox_prev, vox_next, t).  _match_forward hands the whole
\* voxel array to interpolate_coord: the rows of t are selected, and then
\* either no voxel is given, None comes back and the two-element return of
\* _match_forward cannot be unpacked into three names, or query_ball_point
\* answers with an array of lists, which cannot index check_rows.
MatchVoxels(f, table, vox_prev, vox_next, t) ==
    LET fresh == f.current_t # t
        rows == IF fresh THEN CheckRows(table, f.forward, t) ELSE f.check_rows
        coords == IF fresh THEN CheckCoords(rows, f.forward) ELSE f.check_coords
    IN  [ fi |-> [f EXCEPT !.check_rows = rows, !.check_coords = coords,
                           !.current_tree = IF fresh THEN coords ELSE @],
          err |-> IF vox_prev = <<>> THEN "ValueError" ELSE "IndexError" ]

\* The reassigner as the script builds it, nothing called yet.  The functions
\* below keep no state from call to call, so each is called on this state.
Fresh(v) == ~v.done /\ v.err = "none" /\ v.t = 0 /\ v.call.op = "none"

\* One pass of the script's loop over the frame pairs: break on an empty
\* vox_prev, else match_voxels, which raises.
VoxPropagate ==
    /\ sys = "voxel" /\ Fresh(vox)
    /\ vox.t < Len(vox.all_mask_coords) - 1
    /\ IF vox.vox_prev = <<>>
       THEN /\ vox' = [vox EXCEPT !.done = TRUE]
            /\ UNCHANGED fi
       ELSE LET r == MatchVoxels(fi, flow, vox.vox_prev, vox.all_mask_coords[vox.t + 2], vox.t)
            IN  /\ vox' = [vox EXCEPT !.err = r.err]
                /\ fi' = r.fi
    /\ UNCHANGED <<sys, im_info, label, frames, thresh, frame_num, err, ntc, n2n, hu, gate, matched, flow>>

\* _assign_unique_matches on next voxels, their distances and prev voxels
VoxAssignUniqueMatches ==
    /\ sys = "voxel" /\ Fresh(vox)
    /\ \E p \in CoordLists(SeqSet(vox.all_mask_coords[2]), SeqSet(vox.all_mask_coords[1])) :
          LET distances == [k \in 1..Len(p[1]) |-> Abs(p[1][k] - p[2][k])]
          IN  vox' = [vox EXCEPT !.call =
                        [NoCall EXCEPT !.op = "_assign_unique_matches",
                                       !.pc = "returned",
                                       !.args = <<p[1], distances, p[2]>>,
                                       !.result = AssignUniqueMatches(p[1], distances, p[2])]]
    /\ UNCHANGED <<sys, im_info, label, frames, thresh, frame_num, err, ntc, n2n, hu, gate, matched, flow, fi>>

\* _distance_threshold on prev voxels and the next voxels matched to them
VoxDistanceThreshold ==
    /\ sys = "voxel" /\ Fresh(vox)
    /\ \E p \in CoordLists(SeqSet(vox.all_mask_coords[1]), SeqSet(vox.all_mask_coords[2])) :
          vox' = [vox EXCEPT !.call =
                    [NoCall EXCEPT !.op = "_distance_threshold",
                                   !.pc = "returned",
                                   !.args = <<p[1], p[2]>>,
                                   !.result = DistanceThreshold(p[1], p[2], thresh)]]
    /\ UNCHANGED <<sys, im_info, label, frames, thresh, frame_num, err, ntc, n2n, hu, gate, matched, flow, fi>>

\* The end of match_voxels from the computation of unmatched_coords on,
\* entered with arrays prev_coords_matched and next_coords_matched
VoxResidualStart ==
    /\ sys = "voxel" /\ Fresh(vox)
    /\ \E p \in CoordLists(SeqSet(vox.all_mask_coords[1]), SeqSet(vox.all_mask_coords[2])) :
          vox' = [vox EXCEPT !.call =
                    [NoCall EXCEPT !.op = "residual",
                                   !.pc = "loop",
                                   !.args = <<p[1], p[2]>>,
                                   !.prev_coords_matched = p[1],
                                   !.next_coords_matched = p[2],
                                   !.unmatched_coords =
                                        UnmatchedCoords(vox.all_mask_coords[2], p[2])]]
    /\ UNCHANGED <<sys, im_info, label, frames, thresh, frame_num, err, ntc, n2n, hu, gate, matched, flow, fi>>

\* One pass of while unmatched_diff.  An empty array times the scaling
\* raises, for the matched voxels and for the unmatched ones.
VoxResidualIterate ==
    /\ sys = "voxel"
    /\ vox.call.op = "residual" /\ vox.call.pc = "loop"
    /\ IF vox.call.next_coords_matched = <<>> \/ vox.call.unmatched_coords = <<>>
       THEN vox' = [vox EXCEPT !.call.pc = "raised", !.call.err = "ValueError"]
       ELSE \E idxs \in NearestChoices(vox.call.next_coords_matched, vox.call.unmatched_coords) :
               vox' = [vox EXCEPT !.call =
                          ResidualIteration(vox.call, vox.all_mask_coords[2], thresh, idxs)]
    /\ UNCHANGED <<sys, im_info, label, frames, thresh, frame_num, err, ntc, n2n, hu, gate, matched, flow, fi>>

NextVox ==
    \/ VoxPropagate
    \/ VoxAssignUniqueMatches
    \/ VoxDistanceThreshold
    \/ VoxResidualStart
    \/ VoxResidualIterate

SpecVox == InitVox /\ [][NextVox]_vars

\* The residual loop of match_voxels alone, on a reassigner without flow.
InitResidual ==
    /\ InitVox
    /\ flow = <<>>

NextResidual ==
    \/ VoxResidualStart
    \/ VoxResidualIterate

SpecResidual == InitResidual /\ [][NextResidual]_vars

\* ------------------------------------------------------------- ImInfo
InitImInfo ==
    /\ sys = "im_info"
    /\ frames = [f \in 1..NumFrames |-> <<>>]
    /\ thresh \in Thresholds
    /\ frame_num = 0
    /\ err = "none"
    /\ ntc = NodeTrackConstructor
    /\ n2n = N2NConstructor
    /\ hu = HuMomentTracking
    /\ gate = NoGate
    /\ matched = NoMatched
    /\ flow = <<>>
    /\ fi = FlowInterpolator(TRUE)
    /\ vox = NoVoxelReassigner
    /\ im_info = NoImInfo
    /\ label = NoLabel

\* ImInfo(im_path): the constructor called with the path alone
ImInfoFromPath ==
    /\ sys = "im_info" /\ ~im_info.built
    /\ \E im_path \in ImagePaths : \E file \in ImageFiles :
          im_info' = ImInfo(im_path, 0, <<>>, file, TRUE)
    /\ UNCHANGED <<sys, label, frames, thresh, frame_num, err, ntc, n2n, hu, gate, matched, flow, fi, vox>>

\* ImInfo(im_path, ch=ch, dim_sizes=dim_sizes)
ImInfoWithArguments ==
    /\ sys = "im_info" /\ ~im_info.built
    /\ \E im_path \in ImagePaths : \E file \in ImageFiles :
       \E ch \in {0, 1} : \E dim_sizes \in {<<>>, GivenDimSizes} :
          im_info' = ImInfo(im_path, ch, dim_sizes, file, FALSE)
    /\ UNCHANGED <<sys, label, frames, thresh, frame_num, err, ntc, n2n, hu, gate, matched, flow, fi, vox>>

NextImInfo ==
    \/ ImInfoFromPath
    \/ ImInfoWithArguments

SpecImInfo == InitImInfo /\ [][NextImInfo]_vars

\* -------------------------------------------------------------- Label
InitLabel ==
    /\ sys = "label"
    /\ frames = [f \in 1..NumFrames |-> <<>>]
    /\ thresh \in Thresholds
    /\ frame_num = 0
    /\ err = "none"
    /\ ntc = NodeTrackConstructor
    /\ n2n = N2NConstructor
    /\ hu = HuMomentTracking
    /\ gate = NoGate
    /\ matched = NoMatched
    /\ flow = <<>>
    /\ fi = FlowInterpolator(TRUE)
    /\ vox = NoVoxelReassigner
    /\ im_info = NoImInfo
    /\ label \in {Label(num_t, b) : num_t \in 1..NumLabelFrames, b \in BOOLEAN}

\* One pass of the loop of _run_segmentation
LabelRunFrame ==
    /\ sys = "label" /\ label.t < label.num_t
    /\ \E found \in FrameLabels(label.snr_cleaning) : label' = RunFrame(label, found)
    /\ UNCHANGED <<sys, im_info, frames, thresh, frame_num, err, ntc, n2n, hu, gate, matched, flow, fi, vox>>

NextLabel == LabelRunFrame

SpecLabel == InitLabel /\ [][NextLabel]_vars

\* ------------------------------------------------------------ properties

\* C1: whenever a previous-frame track/marker is accepted as a Tier-1 match
\* of a current-frame node/marker, the pair is reachable and its cost is the
\* minimum over the reachable candidates of its row and over the reachable
\* candidates of its column of the frame pair's cost matrix.
C1_MutualBest ==
    \A e \in matched.pairs :
        LET c == matched.cm[e[1]][e[2]]
        IN  /\ c # Inf
            /\ \A r \in 0..(matched.R - 1) :
                  matched.cm[r][e[2]] # Inf => c <= matched.cm[r][e[2]]
            /\ \A k \in 0..(matched.C - 1) :
                  matched.cm[e[1]][k] # Inf => c <= matched.cm[e[1]][k]

\* A Tier-1 match whose row and column both hold another reachable candidate.
C1_Witness ==
    \E e \in matched.pairs :
        /\ \E r \in 0..(matched.R - 1) : r # e[1] /\ matched.cm[r][e[2]] # Inf
        /\ \E k \in 0..(matched.C - 1) : k # e[2] /\ matched.cm[e[1]][k] # Inf

\* C2 as stated: for a fixed frame pair, every pair accepted under the
\* smaller maximum link distance is also accepted under the larger one (for
\* some optimal assignment under each threshold).
C2_AcceptedMonotone ==
    gate.th2 # 0 => \E slo \in gate.lo : \E shi \in gate.hi : slo \subseteq shi

\* C2, amended: for a fixed frame pair, every pair the distance gate leaves
\* reachable under the smaller maximum link distance is also reachable under
\* the larger one.
C2_GateMonotone == gate.reach_lo \subseteq gate.reach_hi

\* A frame pair matched under two different thresholds, the larger one
\* reaching pairs the smaller one gates out.
C2_Witness ==
    /\ gate.th2 > thresh
    /\ gate.reach_lo # {}
    /\ gate.reach_lo # gate.reach_hi

\* The frame pair (0, 1) has been processed, to the end or to an exception.
FirstPairProcessed == frame_num >= 2 \/ (frame_num = 1 /\ err # "none")

\* C3 as stated: when next is prev translated by v, v within the gate and
\* a flow record describing v, after the frame pair is processed every next
\* voxel p has the label of prev voxel p - v and no exception was raised.
C3_Conservation ==
    \A v \in {1, 2} :
        LET prev == vox.all_mask_coords[1]
            next == vox.all_mask_coords[2]
        IN  ( /\ sys = "voxel"
              /\ prev # <<>>
              /\ next = [k \in 1..Len(prev) |-> prev[k] + v]
              /\ v < thresh
              /\ Len(flow) = 1 /\ flow[1].vector = v /\ flow[1].origin \in SeqSet(prev)
              /\ vox.done \/ vox.err # "none" )
            => /\ vox.err = "none"
               /\ \A k \in 1..Len(next) :
                     vox.new_label_im[2][next[k]] = vox.new_label_im[1][next[k] - v]

\* C4 as stated: after _assign_unique_matches every next voxel appears once,
\* with the prev voxel of its lowest distance, and every prev voxel that
\* lost a collision is in the unmatched pool computed from the result.
C4_CollisionResolution ==
    (sys = "voxel" /\ vox.call.op = "_assign_unique_matches") =>
        LET matches == vox.call.args[1]
            distances == vox.call.args[2]
            kept_coords == vox.call.args[3]
            prev_out == vox.call.result[1]
            next_out == vox.call.result[2]
            pool == SeqSet(UnmatchedCoords(vox.all_mask_coords[2], next_out))
        IN  /\ \A i, j \in 1..Len(next_out) : i # j => next_out[i] # next_out[j]
            /\ \A i \in 1..Len(next_out) : \A k \in 1..Len(matches) :
                  matches[k] = next_out[i] => Abs(prev_out[i] - next_out[i]) <= distances[k]
            /\ \A k \in 1..Len(matches) :
                  kept_coords[k] \notin SeqSet(prev_out) => kept_coords[k] \in pool

\* C5 as stated: with a single flow record of vector v for the queried time
\* index, interpolate_coord at the record's anchor returns v, and at a point
\* farther from the anchor than the radius it returns None.
C5_Locality ==
    ( /\ sys = "flow" /\ Len(flow) = 1 /\ fi.t # -1
      /\ flow[1].frame = (IF fi.forward THEN fi.t ELSE fi.t - 1) )
    => LET anchor == IF fi.forward THEN flow[1].origin
                     ELSE flow[1].origin + flow[1].vector
       IN  /\ fi.coord = anchor =>
                 fi.result # <<>> /\ fi.result[1] = flow[1].vector * fi.result[2]
           /\ Abs(fi.coord - anchor) > thresh => fi.result = <<>>

C8_ResidualTerminates ==
    (sys = "voxel" /\ vox.call.op = "residual") =>
        /\ vox.call.err = "none"
        /\ (vox.call.pc = "loop" /\ vox.call.iterations > 0) => vox.call.unmatched_coords # <<>>

\* C9 as stated: after interpolate_coord(coord, t) the candidate rows are
\* exactly the rows of frame t (forward) or t-1 (backward), anchored at the
\* origin (forward) or at origin + vector (backward).
C9_CandidateSelection ==
    (sys = "flow" /\ fi.t # -1) =>
        LET want == IF fi.forward THEN fi.t ELSE fi.t - 1
            rows == SelectSeq(flow, LAMBDA r : r.frame = want)
        IN  /\ fi.check_rows = rows
            /\ fi.check_coords = [k \in 1..Len(rows) |->
                                    IF fi.forward THEN rows[k].origin
                                    ELSE rows[k].origin + rows[k].vector]

\* C10 as stated: no run ends with an exception at a frame pair that
\* involves a frame without markers.
C10_EmptyFrameNotFatal ==
    (sys \in TrackerSystems /\ err # "none" /\ frame_num < NumFrames) =>
        /\ frames[frame_num + 1] # <<>>
        /\ frame_num >= 1 => frames[frame_num] # <<>>

\* C11 as stated: when no flow record lies within the radius of any prev
\* voxel, match_voxels does not raise and the frame pair is reported as
\* processed.
C11_NoDisplacementNotFatal ==
    ( /\ sys = "voxel"
      /\ vox.vox_prev # <<>>
      /\ vox.call.op = "none"
      /\ vox.done \/ vox.err # "none"
      /\ \A k \in 1..Len(vox.vox_prev) : \A i \in 1..Len(flow) :
            Abs(flow[i].origin - vox.vox_prev[k]) > thresh )
    => vox.err = "none"

\* The tracks that hold node n of frame f.
TracksOfNode(f, n) ==
    {k \in 1..Len(ntc.tracks) :
        \E i \in 1..Len(ntc.tracks[k].frame_nums) :
            ntc.tracks[k].frame_nums[i] = f /\ ntc.tracks[k].node_num[i] = n}

\* C12 as stated: after populate_tracks has processed a frame without an
\* exception, every node of that frame belongs to exactly one track.
C12_EveryNodeInOneTrack ==
    (sys = "node_tracking" /\ err = "none" /\ frame_num >= 2) =>
        \A n \in 0..(Len(frames[frame_num]) - 1) :
            Cardinality(TracksOfNode(frame_num - 1, n)) = 1

\* C13 as stated: after a frame is processed, a track the optimal assignment
\* paired with a padding column has under that frame, in possible_merges_to,
\* one entry per node reachable from it and no other, and its
\* possible_emerges_from has no entry for the frame.
C13_MergesRecorded ==
    (sys = "node_tracking" /\ err = "none" /\ frame_num >= 2) =>
        \A t \in 0..(ntc.num_tracks - 1) :
            ntc.node_nums[t] >= ntc.num_nodes =>
                LET f == frame_num - 1
                    tr == ntc.tracks[t + 1]
                    reach == {n \in 0..(ntc.num_nodes - 1) :
                                 ntc.cost_matrix[t][n] < thresh * CostScale}
                    rec == IF f \in DOMAIN tr.possible_merges_to
                           THEN tr.possible_merges_to[f] ELSE <<>>
                IN  /\ SeqSet(rec) = {<<n, ntc.cost_matrix[t][n]>> : n \in reach}
                    /\ Len(rec) = Cardinality(reach)
                    /\ f \notin DOMAIN tr.possible_emerges_from

\* The neighbours of the last query: the indices query_ball_point returned.
LastNeighbours == BallPoint(fi.current_tree, fi.coord, thresh)

\* C14: whenever interpolate_coord found neighbours, every weight is
\* strictly positive whatever the order of the neighbours, the weights' sum
\* (the denominator of the result) is positive, and the returned vector
\* lies between the smallest and the largest neighbour vector.
C14_WeightsConvex ==
    (sys = "flow" /\ fi.t # -1 /\ fi.result # <<>>) =>
        LET vs == {fi.check_rows[k].vector : k \in LastNeighbours}
        IN  /\ LastNeighbours # {}
            /\ \A order \in Orderings(LastNeighbours) :
                  LET w == VectorWeights(fi.check_rows, order,
                               SortedDistances(fi.current_tree, LastNeighbours, fi.coord))
                  IN  \A i \in 1..Len(w) : w[i] > 0
            /\ \E order \in Orderings(LastNeighbours) :
                  LET w == VectorWeights(fi.check_rows, order,
                               SortedDistances(fi.current_tree, LastNeighbours, fi.coord))
                  IN  fi.result = FinalVector(fi.check_rows, order, w)
            /\ fi.result[2] > 0
            /\ Min(vs) * fi.result[2] <= fi.result[1]
            /\ fi.result[1] <= Max(vs) * fi.result[2]

\* A query with two neighbours of different vectors, neither at distance
\* zero, answered with a vector strictly between the two.
C14_Witness ==
    /\ sys = "flow" /\ fi.t # -1 /\ fi.result # <<>>
    /\ Cardinality(LastNeighbours) >= 2
    /\ \A k \in LastNeighbours : fi.current_tree[k] # fi.coord
    /\ \E j, k \in LastNeighbours :
          /\ fi.check_rows[j].vector * fi.result[2] < fi.result[1]
          /\ fi.result[1] < fi.check_rows[k].vector * fi.result[2]

\* C15 as stated: _distance_threshold keeps a pair exactly when its
\* distance does not exceed the threshold, and the first residual pass
\* matches every unmatched voxel whose nearest matched voxel is not farther
\* than the threshold.
C15_VoxelGateInclusive ==
    /\ (sys = "voxel" /\ vox.call.op = "_distance_threshold") =>
          LET prev == vox.call.args[1]
              next == vox.call.args[2]
              res == vox.call.result
          IN  \A k \in 1..Len(prev) :
                  (Abs(prev[k] - next[k]) <= thresh)
                      <=> (\E i \in 1..Len(res[1]) : res[1][i] = next[k] /\ res[2][i] = prev[k])
    /\ (sys = "voxel" /\ vox.call.op = "residual" /\ vox.call.iterations = 1
            /\ vox.call.err = "none") =>
          LET next0 == vox.call.args[2]
          IN  \A u \in SeqSet(UnmatchedCoords(vox.all_mask_coords[2], next0)) :
                  (\E j \in 1..Len(next0) : Abs(next0[j] - u) <= thresh)
                      => u \in SeqSet(vox.call.next_coords_matched)

\* C16: no pair returned by _find_best_matches or _find_confident_matches
\* is marked unreachable in the cost matrix or outside the distance mask,
\* and no node appended by Tier 1 or Tier 2 lies farther from the track's
\* previous centroid than the maximum link distance allows for the time
\* between them.
C16_NoUnreachableSelected ==
    /\ sys = "hu" =>
          /\ \A k \in 1..Len(hu.row_matches) :
                /\ hu.cost_matrix.cm[hu.row_matches[k]][hu.col_matches[k]] # Inf
                /\ <<hu.row_matches[k], hu.col_matches[k]>> \in hu.cost_matrix.mask
          /\ \A c \in 1..Len(hu.confident) : \A k \in 1..Len(hu.confident[c].row_indices) :
                /\ hu.cost_matrix.cm[hu.confident[c].row_indices[k]]
                                    [hu.confident[c].col_indices[k]] # Inf
                /\ <<hu.confident[c].row_indices[k], hu.confident[c].col_indices[k]>>
                       \in hu.cost_matrix.mask
    /\ sys = "node_tracking" =>
          \A k \in 1..Len(ntc.tracks) : \A i \in 2..Len(ntc.tracks[k].centroids_um) :
              ntc.tracks[k].confidence[i] \in {1, 2} =>
                  Abs(ntc.tracks[k].centroids_um[i] - ntc.tracks[k].centroids_um[i - 1])
                      <= thresh * (ntc.tracks[k].time_points[i] - ntc.tracks[k].time_points[i - 1])

\* A frame pair of the moment tracker where one marker has no reachable
\* candidate at all and another one is matched.
C16_Witness ==
    /\ sys = "hu" /\ hu.row_matches # <<>>
    /\ \E i \in DOMAIN hu.cost_matrix.cm :
          \A j \in DOMAIN hu.cost_matrix.cm[i] : hu.cost_matrix.cm[i][j] = Inf

\* C17 as stated: after the script's pass over the frame pair (0, 1), frame
\* 0 holds the seed labels, a next voxel that a flow record within the gate
\* leads a prev voxel to holds that prev voxel's label, and every voxel
\* outside the mask of frame 1 is 0 there.
C17_LabelPropagation ==
    (sys = "voxel" /\ vox.call.op = "none" /\ (vox.done \/ vox.err # "none")) =>
        LET prev == SeqSet(vox.all_mask_coords[1])
            next == SeqSet(vox.all_mask_coords[2])
        IN  /\ \A c \in VoxCoords :
                  vox.new_label_im[1][c] = IF c \in prev THEN c + 1 ELSE 0
            /\ \A i \in 1..Len(flow) :
                  ( /\ flow[i].frame = 0
                    /\ flow[i].origin \in prev
                    /\ flow[i].origin + flow[i].vector \in next
                    /\ flow[i].vector < thresh )
                  => vox.new_label_im[2][flow[i].origin + flow[i].vector]
                        = vox.new_label_im[1][flow[i].origin]
            /\ \A c \in VoxCoords \ next : vox.new_label_im[2][c] = 0

\* C18 as stated: after a descriptor channel is normalised, a pair of a
\* marker with an undefined value gets no cost from the channel, and every
\* other gated pair gets the z-score taken over the gated pairs whose values
\* are defined, as if the undefined markers were not there.
C18_UndefinedExcluded ==
    (sys = "hu_descriptor" /\ hu.call.op = "_zscore_normalize") =>
        LET m == DifferenceMatrix(hu.call.args[1], hu.call.args[2])
            defined == {e \in hu.call.mask : m[e[1]][e[2]] # <<>>}
            filled == [i \in DOMAIN m |-> [j \in DOMAIN m[i] |->
                          IF m[i][j] = <<>> THEN <<0>> ELSE m[i][j]]]
            want == ZscoreNormalize(filled, defined)
        IN  \A e \in hu.call.mask :
                IF e \notin defined
                THEN hu.call.result.z[e[1]][e[2]].kind = "nan"
                ELSE /\ hu.call.result.z[e[1]][e[2]] = want.z[e[1]][e[2]]
                     /\ want.z[e[1]][e[2]].kind = "num" =>
                           hu.call.result.n = want.n /\ hu.call.result.Q = want.Q

\* os.path.basename
Basename(path) == SplitLast(path, "/")

\* os.path.splitext(name)[0]: the name up to its last dot, the whole name
\* when it has no dot after its leading dots
SplitextRoot(name) ==
    LET d == LastIndex(name, ".")
    IN  IF \E k \in 1..(d - 1) : name[k] # "." THEN SubSeq(name, 1, d - 1) ELSE name

\* os.path.dirname: the path up to its last separator, trailing separators
\* dropped unless it consists of separators only
RECURSIVE StripSeparators(_)
StripSeparators(head) ==
    IF head # <<>> /\ head[Len(head)] = "/" THEN StripSeparators(SubSeq(head, 1, Len(head) - 1))
    ELSE head

Dirname(path) ==
    LET head == SubSeq(path, 1, LastIndex(path, "/"))
    IN  IF \A k \in 1..Len(head) : head[k] = "/" THEN head ELSE StripSeparators(head)

\* C19 as stated: for every image path, extension is the text after the
\* last dot, filename is os.path.splitext of the base name and dirname is
\* the base name of the directory that holds the file.
C19_PathParts ==
    (sys = "im_info" /\ im_info.built) =>
        /\ im_info.extension = SplitLast(im_info.im_path, ".")
        /\ im_info.filename = SplitextRoot(Basename(im_info.im_path))
        /\ im_info.dirname = Basename(Dirname(im_info.im_path))

\* C20 as stated: an ImInfo built from the path alone on an ImageJ file
\* that holds the four fields has ch None and dim_sizes with exactly the
\* keys x, y, z, t and the values of the fields.
C20_DefaultsFromPath ==
    ( /\ sys = "im_info" /\ im_info.built /\ im_info.path_only
      /\ im_info.metadata_type = "imagej"
      /\ \A k \in {"X", "Y", "Z", "T"} : im_info.dim_sizes[k] # <<>> )
    => /\ im_info.ch = <<>>
       /\ im_info.dim_sizes = [x |-> <<ImageJFields.physicalsizex>>,
                               y |-> <<ImageJFields.physicalsizey>>,
                               z |-> <<ImageJFields.spacing>>,
                               t |-> <<ImageJFields.finterval>>]

\* C21 as stated: the candidate rows, their coordinates and the spatial
\* index used to answer interpolate_coord(coord, t) are the ones built for
\* t, also after calls that returned None.
C21_CacheMatchesTime ==
    (sys = "flow" /\ fi.t # -1) =>
        /\ fi.check_rows = CheckRows(flow, fi.forward, fi.t)
        /\ fi.check_coords = CheckCoords(CheckRows(flow, fi.forward, fi.t), fi.forward)
        /\ fi.current_tree = fi.check_coords

\* The pair (t, n) is the optimal assignment's, reachable, and its cost is
\* the minimum reachable cost of row t and of column n.
MutualBestAssigned(c, th, t, n) ==
    /\ t < c.num_tracks /\ n < c.num_nodes
    /\ c.node_nums[t] = n
    /\ c.cost_matrix[t][n] < th * CostScale
    /\ \A r \in 0..(c.num_tracks + c.num_nodes - 1) : c.cost_matrix[t][n] <= c.cost_matrix[r][n]
    /\ \A k \in 0..(c.num_tracks + c.num_nodes - 1) : c.cost_matrix[t][n] <= c.cost_matrix[t][k]

\* Track t took node n of the frame with the confidence given.
AcceptedWith(c, t, n, frame, confident) ==
    LET track == c.tracks[t + 1]
        last == Len(track.frame_nums)
    IN  /\ track.frame_nums[last] = frame
        /\ track.node_num[last] = n
        /\ track.confidence[last] = confident

\* C22 as stated: when _assign_confidence_1_matches returns, every pair of
\* the optimal assignment whose cost is the minimum reachable cost of its
\* row and of its column is accepted with confidence 1 and removed from
\* tracks_to_assign and nodes_to_assign.
C22_Tier1Exhaustive ==
    (sys = "tiers" /\ ntc.tier = "1" /\ err = "none") =>
        \A t \in 0..(ntc.num_tracks - 1) : \A n \in 0..(ntc.num_nodes - 1) :
            MutualBestAssigned(ntc, thresh, t, n) =>
                /\ AcceptedWith(ntc, t, n, 1, 1)
                /\ ~InSeq(ntc.tracks_to_assign, t)
                /\ ~InSeq(ntc.nodes_to_assign, n)

\* C23 as stated: the cost matrix _run_hu_tracking builds for frame t uses
\* the descriptors of frames t-1 and t and the marker distances of the same
\* two frames.
C23_PreviousFrameDescriptors ==
    (sys = "hu" /\ hu.call.op = "_get_cost_matrix") =>
        /\ hu.call.args.descriptors = <<hu.call.args.t - 1, hu.call.args.t>>
        /\ hu.call.args.distances = <<hu.call.args.t - 1, hu.call.args.t>>

\* The gate of _distance_threshold on the single pair (a, b).
InGate(a, b) == DistanceThreshold(<<a>>, <<b>>, thresh)[1] # <<>>

\* What one residual pass from the loop state w to the loop state v does.
ResidualPass(w, v) ==
    LET prev0 == w.prev_coords_matched
        next0 == w.next_coords_matched
        prev1 == v.prev_coords_matched
        next1 == v.next_coords_matched
        added == (Len(next0) + 1)..Len(next1)
        nearest(u) == {j \in 1..Len(next0) :
                          \A k \in 1..Len(next0) : Abs(next0[j] - u) <= Abs(next0[k] - u)}
    IN  /\ Len(prev1) = Len(next1)
        /\ Len(next0) <= Len(next1)
        /\ SubSeq(prev1, 1, Len(prev0)) = prev0
        /\ SubSeq(next1, 1, Len(next0)) = next0
        /\ \A u \in SeqSet(w.unmatched_coords) :
              IF \E j \in nearest(u) : InGate(next0[j], u)
              THEN /\ Cardinality({i \in added : next1[i] = u}) = 1
                   /\ \A i \in added : next1[i] = u =>
                          \E j \in nearest(u) : prev1[i] = prev0[j]
              ELSE u \notin SeqSet(next1)
        /\ \A i \in added : next1[i] \in SeqSet(w.unmatched_coords)

C25_NearerWeighsMore ==
    (sys = "flow" /\ fi.t # -1 /\ fi.result # <<>>) =>
        LET distances == SortedDistances(fi.current_tree, LastNeighbours, fi.coord)
        IN  \A order \in Orderings(LastNeighbours) :
                LET w == VectorWeights(fi.check_rows, order, distances)
                IN  \A i, j \in 1..Len(w) :
                        ( /\ fi.check_rows[order[i]].cost = fi.check_rows[order[j]].cost
                          /\ distances[i] < distances[j] )
                        => w[i] >= w[j]

\* C26 as stated: whatever order query_ball_point lists the neighbours in,
\* the i-th distance handed to _get_vector_weights is the distance from the
\* query point to the anchor of the i-th neighbour.
C26_DistancesAligned ==
    (sys = "flow" /\ fi.t # -1 /\ fi.result # <<>>) =>
        LET distances == SortedDistances(fi.current_tree, LastNeighbours, fi.coord)
        IN  \A order \in Orderings(LastNeighbours) :
                \A i \in 1..Len(order) :
                    distances[i] = Abs(fi.current_tree[order[i]] - fi.coord)

\* C27 as stated: match_voxels returns, and in the arrays it builds every
\* entry of the first is a voxel of the previous frame paired with the
\* voxel of the next frame at the same position of the second.  The arrays
\* of the forward matches are the result of _distance_threshold as
\* _match_forward returns it and match_voxels unpacks it: first component
\* vox_prev_matches_fw, second component vox_next_matches_fw.
C27_ConsistentRoles ==
    /\ sys = "voxel" => vox.err = "none"
    /\ (sys = "voxel" /\ vox.call.op = "_distance_threshold") =>
          LET vox_prev_kept == vox.call.args[1]
              vox_matched_to_centroids == vox.call.args[2]
              vox_prev_matches_fw == vox.call.result[1]
              vox_next_matches_fw == vox.call.result[2]
          IN  \A i \in 1..Len(vox_prev_matches_fw) :
                  \E k \in 1..Len(vox_prev_kept) :
                      /\ vox_prev_matches_fw[i] = vox_prev_kept[k]
                      /\ vox_next_matches_fw[i] = vox_matched_to_centroids[k]

\* C28 as stated: after _confidence_1_assignment has linked track i of
\* frame t-1 to track j of frame t, the children of i hold an entry naming
\* frame t and track j, the parents of j hold an entry naming frame t-1 and
\* track i, both with the assignment cost, and no other entry was added.
C28_LinksNameTheOtherTrack ==
    (sys = "node_to_node" /\ err = "none" /\ n2n.current_frame_num >= 1) =>
        LET t == n2n.current_frame_num
            t1 == n2n.tracks[t - 1]
            t2 == n2n.tracks[t]
        IN  /\ \A e \in matched.pairs :
                  /\ InSeq(t1[e[1] + 1].children,
                           [frame |-> t, track |-> e[2], cost |-> matched.cm[e[1]][e[2]]])
                  /\ InSeq(t2[e[2] + 1].parents,
                           [frame |-> t - 1, track |-> e[1], cost |-> matched.cm[e[1]][e[2]]])
            /\ SumSeq([k \in 1..Len(t1) |-> Len(t1[k].children)]) = Cardinality(matched.pairs)
            /\ SumSeq([k \in 1..Len(t2) |-> Len(t2[k].parents)]) = Cardinality(matched.pairs)

\* The positions at which entry x occurs in the list q.
Occurrences(q, x) == {k \in 1..Len(q) : q[k] = x}

\* The (track, node) pairs add_node has appended for the frame.
AcceptedPairs(c, frame) ==
    {e \in (0..(c.num_tracks - 1)) \X (0..(c.num_nodes - 1)) :
        \E k \in 1..Len(c.tracks[e[1] + 1].frame_nums) :
            /\ c.tracks[e[1] + 1].frame_nums[k] = frame
            /\ c.tracks[e[1] + 1].node_num[k] = e[2]}

\* C29: after Tier 1 and after Tier 2 of a frame pair, no track holds more
\* than one node of the frame, no node is held by more than one track,
\* every accepted pair is a pair of the optimal assignment accepted with
\* confidence 1 or 2, and tracks_to_assign and nodes_to_assign hold exactly
\* the tracks and nodes not accepted, each once.
C29_AcceptedOneToOne ==
    (sys = "tiers" /\ ntc.tier \in {"1", "2"}) =>
        LET acc == AcceptedPairs(ntc, 1)
        IN  /\ \A t \in 0..(ntc.num_tracks - 1) :
                  /\ Cardinality({k \in 1..Len(ntc.tracks[t + 1].frame_nums) :
                                     ntc.tracks[t + 1].frame_nums[k] = 1}) <= 1
                  /\ Cardinality(Occurrences(ntc.tracks_to_assign, t))
                         = (IF \E e \in acc : e[1] = t THEN 0 ELSE 1)
            /\ \A n \in 0..(ntc.num_nodes - 1) :
                  /\ Cardinality({e \in acc : e[2] = n}) <= 1
                  /\ Cardinality(Occurrences(ntc.nodes_to_assign, n))
                         = (IF \E e \in acc : e[2] = n THEN 0 ELSE 1)
            /\ \A e \in acc :
                  /\ ntc.node_nums[e[1]] = e[2]
                  /\ \E confident \in {1, 2} : AcceptedWith(ntc, e[1], e[2], 1, confident)

\* Tier 2 has returned on a frame pair where Tier 1 accepted two pairs or
\* more and Tier 2 another one.
C29_Witness ==
    /\ sys = "tiers" /\ ntc.tier = "2" /\ err = "none"
    /\ Cardinality({e \in AcceptedPairs(ntc, 1) : AcceptedWith(ntc, e[1], e[2], 1, 1)}) >= 2
    /\ \E e \in AcceptedPairs(ntc, 1) : AcceptedWith(ntc, e[1], e[2], 1, 2)

\* C30 as stated: every label written for a frame is greater than every
\* label written for an earlier frame.
C30_LabelsUniqueAcrossFrames ==
    (sys = "label") =>
        \A f1, f2 \in 1..label.t :
            f1 < f2 =>
                \A a \in label.instance_label_memmap[f1] :
                    \A b \in label.instance_label_memmap[f2] : a < b

====
